---------------------------- MODULE Spec2Model ----------------------------
(***************************************************************************)
(* Load-generation engine of kperf: the NameCache (request/cache.go), the  *)
(* weighted random generator (Run / Stop / randomPick), the postDel        *)
(* builder and requester, and the scheduler's worker pool (Schedule).      *)
(***************************************************************************)
EXTENDS Integers, Sequences, FiniteSets, TLC

(***************************************************************************)
(* Bounds of the model.                                                    *)
(***************************************************************************)
NumWorkers == 2        \* spec.Client of the modelled profiles
MaxTotal == 2          \* largest finite spec.Total
MaxSent == 3           \* cap on Run's sum when spec.Total = 0 (run forever)
NumStoppers == 2       \* tasks other than Schedule that call Stop
MaxOps == 4             \* Push calls of the stand-alone NameCache run
MaxBuilders == 3       \* most request entries of a stand-alone randomPick run
MaxShare == 3          \* largest share of a stand-alone randomPick run
MaxRate == 2           \* largest spec.Rate of a timed run
MaxTick == 3           \* length of a timed run, in ticks of 1/rate second
MaxKeySpace == 2       \* largest keySpaceSize of the patch entries of a stand-alone Build run
MaxBuilds == 3         \* POST builds of a stand-alone Build run
MaxConns == 2          \* most clients (len(restCli)) of a binding run
MaxCalls == 4          \* NameCache calls of a concurrent run
MaxChurn == 4          \* spec.Total of a postDel churn run
MaxNodes == 5          \* largest --nodes of a batch-add run
MaxBatch == 3          \* largest --batch-size of a batch-add run

Burst == 10            \* rate.NewLimiter(rate.Limit(qps), 10)
MaxInt32 == 2147483647 \* math.MaxInt32

Workers == 1..NumWorkers
Stoppers == 0..NumStoppers
SchedTask == CHOOSE t \in Stoppers : \A u \in Stoppers : t <= u   \* the task that runs Schedule

(***************************************************************************)
(* Values.                                                                 *)
(***************************************************************************)
EmptyName == << >>                      \* the Go string ""
NoReq == [op |-> "none", b |-> 0, name |-> << >>, lenBefore |-> 0, clean |-> TRUE,
          err |-> FALSE, snap |-> << >>, cli |-> -1]
NoStats == [Set |-> FALSE]
TransportErr == "err"                   \* the error of a failed request
CoinValues == {0, 499, 500, 999}        \* representative draws of rand.Int(1000)
HarnessNames == {<<1, 1>>, <<1, 2>>}    \* names pushed by the stand-alone run
\* no Build call yet
NoCall == [op |-> "none", pc |-> "idle", id |-> 0, name |-> EmptyName, ok |-> FALSE,
           n |-> 0]
NoCmd == [totalNodes |-> 0, batchSize |-> 0, i |-> 0, pc |-> "idle", err |-> "nil"]
NoBuilt == [called |-> FALSE, done |-> TRUE, coin |-> 0, timestamp |-> 0, suffix |-> 0,
            cacheBefore |-> << >>, cacheAfter |-> << >>,
            counterBefore |-> 0, method |-> "", comps |-> << >>,
            resourceVersion |-> "", operation |-> "", name |-> << >>]

VARIABLES
    spec,             \* the LoadProfileSpec: Total, Shares, Kinds, DeleteRatio (permille),
                      \* and Conns, the length of the restCli slice made for it
    callerDone,       \* the caller's context is cancelled
    ctxDeadline,      \* the caller's context carries a deadline
    schedCancelled,   \* Schedule's cancel() has been called
    rpc,              \* position of WeightedRandomRequests.Run
    sum,              \* Run's local sum
    rwg,              \* r.wg counter
    once,             \* r.once: "fresh", "running", "done"
    rCancelled,       \* r.cancel() has been called (r.ctx is done)
    closeCount,       \* number of completed close(r.reqBuilderCh)
    panicked,         \* "none" or the runtime panic that ended the program
    stopPc,           \* position of each task inside Stop
    wpc,              \* position of each worker goroutine
    cur,              \* the Requester each worker holds
    cache,            \* requestPostDelBuilder.cache items
    resourceCounter,  \* requestPostDelBuilder.resourceCounter
    respMetric,       \* metric sink: latency observations, failureCount, failureList
    stats,            \* what Schedule returned, with the values its Gather call gave it
    live,             \* names POSTed successfully and not DELETEd successfully
    executed,         \* number of requests whose execution finished
    nPost,            \* executed POST requests
    nDel,             \* executed DELETE requests
    limErr,           \* some limiter.Wait returned an error
    failed,           \* number of requests that ended with an error
    postNames,        \* the names the POST builds made, in the order of their counter increments
    nRecv,            \* builders the workers' range loops received from the channel
    hPushed,          \* stand-alone run: names pushed, in call order
    hPopped,          \* stand-alone run: names returned by successful Pops, in call order
    lastPop,          \* stand-alone run: result of the latest Pop
    lastLen,          \* stand-alone run: result of the latest Len
    lastPick,         \* stand-alone run: the latest randomPick call, draw and builder index
    picks,            \* stand-alone run: every (draw, builder index) randomPick produced
    bucket,           \* timed run: tokens in the limiter shared by the workers
    clock,            \* timed run: the tick, and per tick of the last second the
                      \* limiter grants (g) and the request starts (s)
    holds,            \* timed run: the worker has a token it has not used yet
    built,            \* stand-alone run: the latest Build call, its inputs and the
                      \* Requester it returned
    mu,               \* concurrent run: Cache.mu, 0 or the worker that holds it
    cop,              \* concurrent run: the NameCache call each worker is in
    lin,              \* concurrent run: the calls in the order of their effect, with results
    nCalls,           \* concurrent run: calls made so far
    slice,            \* the slice NameCache: c.items, as backing array and start in it
    slPop,            \* the slice NameCache: result of the latest Pop
    slLen,            \* the slice NameCache: result of the latest Len
    cmd,              \* nodepool add: flags, loop index, position and error of the Action
    nodepools         \* nodepool add: the nodepools created, in order

profileVars == <<spec, ctxDeadline>>
ctxVars == <<callerDone, schedCancelled>>
genVars == <<rpc, sum, rwg, once, rCancelled, closeCount, stopPc>>
workerVars == <<wpc, cur>>
builderVars == <<cache, resourceCounter>>
ghostVars == <<live, executed, nPost, nDel, limErr, failed, postNames, nRecv>>
limVars == <<bucket, clock, holds>>
seqHarnessVars == <<hPushed, hPopped, lastPop, lastLen, lastPick, picks, limVars, built>>
concVars == <<mu, cop, lin, nCalls>>
sliceVars == <<slice, slPop, slLen>>
poolVars == <<cmd, nodepools>>
laterVars == <<concVars, sliceVars, poolVars>>
harnessVars == <<seqHarnessVars, laterVars>>
vars == <<spec, callerDone, ctxDeadline, schedCancelled, rpc, sum, rwg, once,
          rCancelled, closeCount, panicked, stopPc, wpc, cur, cache,
          resourceCounter, respMetric, stats, live, executed, nPost, nDel,
          limErr, failed, postNames, nRecv, hPushed, hPopped, lastPop, lastLen, lastPick, picks,
          bucket, clock, holds, built, mu, cop, lin, nCalls, slice, slPop, slLen,
          cmd, nodepools>>

(***************************************************************************)
(* NameCache: container/list used as a FIFO.                               *)
(***************************************************************************)
\* Pop that reads the front element and forgets to remove it
CachePopNoRemove(items) ==
    IF Len(items) = 0
    THEN [name |-> EmptyName, ok |-> FALSE, items |-> items]
    ELSE [name |-> Head(items), ok |-> TRUE, items |-> items]

\* Cache.Pop: (name, ok, remaining items)
CachePop(items) ==
    IF Len(items) = 0
    THEN [name |-> EmptyName, ok |-> FALSE, items |-> items]
    ELSE [name |-> Head(items), ok |-> TRUE, items |-> Tail(items)]

\* Push with PushFront in place of PushBack
CachePushFront(items, name) == <<name>> \o items

\* Cache.Push: PushBack
CachePush(items, name) == Append(items, name)

\* Cache.Len
CacheLen(items) == Len(items)

Range(s) == {s[i] : i \in DOMAIN s}

(***************************************************************************)
(* Weighted random generator.                                              *)
(***************************************************************************)
RECURSIVE SumShares(_)
SumShares(shares) ==
    IF shares = << >> THEN 0 ELSE Head(shares) + SumShares(Tail(shares))

\* the second loop of randomPick: index of the builder, 0 is panic("unreachable")
RECURSIVE PickFrom(_, _, _)
PickFrom(shares, i, rnd) ==
    IF i > Len(shares) THEN 0
    ELSE IF rnd < shares[i] THEN i
    ELSE PickFrom(shares, i + 1, rnd - shares[i])

\* the draw taken from [1,sum] instead of [0,sum)
randomPickFromOne(shares, rnd) == PickFrom(shares, 1, rnd + 1)

\* randomPick, rnd being what rand.Int(rand.Reader, sum) returned
randomPick(shares, rnd) == PickFrom(shares, 1, rnd)

chClosed == closeCount > 0
ctxDone == callerDone \/ schedCancelled      \* Schedule's derived context
Running == panicked = "none"

(***************************************************************************)
(* Inputs.                                                                 *)
(***************************************************************************)
Mixes == {[s |-> <<1>>, k |-> <<"postDel">>],
          [s |-> <<1, 2>>, k |-> <<"postDel", "staleList">>]}
DeleteRatios == {0, 500, 1000}            \* deleteRatio 0, 0.5 and 1, in permille
ValidProfiles == {[Total |-> t, Shares |-> m.s, Kinds |-> m.k, DeleteRatio |-> d,
                   Conns |-> 1] :
                     t \in 0..MaxTotal, m \in Mixes, d \in DeleteRatios}
\* profiles that make NewWeightedRandomRequests fail: a share of 0, no request
\* entry, a deleteRatio above 1, an entry with none of the supported kinds
InvalidProfiles ==
    {[Total |-> 1, Shares |-> <<0>>, Kinds |-> <<"postDel">>, DeleteRatio |-> 1000,
      Conns |-> 1],
     [Total |-> 1, Shares |-> << >>, Kinds |-> << >>, DeleteRatio |-> 0, Conns |-> 1],
     [Total |-> 1, Shares |-> <<1>>, Kinds |-> <<"postDel">>, DeleteRatio |-> 1500,
      Conns |-> 1],
     [Total |-> 1, Shares |-> <<1>>, Kinds |-> <<"put">>, DeleteRatio |-> 0, Conns |-> 1]}
Profiles == ValidProfiles \cup InvalidProfiles

\* spec.Validate(): nil (TRUE) or an error (FALSE).  A profile is rejected
\* if it has no requests, a share <= 0, or a deleteRatio outside [0,1]
Validate(p) ==
    /\ Len(p.Kinds) >= 1
    /\ \A i \in DOMAIN p.Shares : p.Shares[i] > 0
    /\ p.DeleteRatio >= 0 /\ p.DeleteRatio <= 1000

SupportedKinds == {"staleList", "quorumList", "watchList", "staleGet", "quorumGet",
                   "getPodLog", "patch", "postDel"}

\* NewWeightedRandomRequests returns an error: "invalid load profile spec" or
\* "not implement for PUT yet"
NewWeightedRandomRequestsFails(p) ==
    \/ ~Validate(p)
    \/ \E i \in DOMAIN p.Kinds : p.Kinds[i] \notin SupportedKinds
TimeStamps == {1}                         \* time.Now().UnixNano() at the POST builds

HarnessIdle ==
    /\ hPushed = << >>
    /\ hPopped = << >>
    /\ lastPop = [name |-> EmptyName, ok |-> FALSE]
    /\ lastLen = 0
    /\ lastPick = [rnd |-> 0, b |-> 0]
    /\ picks = {}
    /\ bucket = Burst
    /\ clock = [now |-> 0, g |-> <<0>>, s |-> <<0>>]
    /\ holds = [w \in Workers |-> FALSE]
    /\ built = NoBuilt
    /\ mu = 0
    /\ cop = [w \in Workers |-> NoCall]
    /\ lin = << >>
    /\ nCalls = 0
    /\ slice = [arr |-> << >>, lo |-> 0]
    /\ slPop = [name |-> EmptyName, ok |-> FALSE]
    /\ slLen = 0
    /\ cmd = NoCmd
    /\ nodepools = << >>

\* nothing of Schedule has run yet
Constructed ==
    /\ callerDone = FALSE
    /\ schedCancelled = FALSE
    /\ rpc = "idle"
    /\ sum = 0
    /\ rwg = 0
    /\ once = "fresh"
    /\ rCancelled = FALSE
    /\ closeCount = 0
    /\ panicked = "none"
    /\ stopPc = [t \in Stoppers |-> "idle"]
    /\ wpc = [w \in Workers |-> "unstarted"]
    /\ cur = [w \in Workers |-> NoReq]
    /\ cache = << >>
    /\ resourceCounter = 0
    /\ respMetric = [lat |-> 0, fail |-> 0, list |-> << >>]
    /\ stats = NoStats
    /\ live = {}
    /\ executed = 0
    /\ nPost = 0
    /\ nDel = 0
    /\ limErr = FALSE
    /\ failed = 0
    /\ postNames = << >>
    /\ nRecv = 0
    /\ HarnessIdle

\* Schedule has been called with a profile and a context.
Init ==
    /\ spec \in Profiles
    /\ ctxDeadline \in BOOLEAN
    /\ Constructed

(***************************************************************************)
(* WeightedRandomRequests.Run                                              *)
(***************************************************************************)
\* the loop test off by one
RunBreaksOffByOne == spec.Total > 0 /\ sum + 1 >= spec.Total

\* the loop test without total > 0
RunBreaksZeroTotal == sum >= spec.Total

\* the loop test with > in place of >=
RunBreaksLate == spec.Total > 0 /\ sum > spec.Total

\* if total > 0 && sum >= total { break }
RunBreaks == spec.Total > 0 /\ sum >= spec.Total

\* r.wg.Add(1)
RunAdd ==
    /\ Running
    /\ rpc = "add"
    /\ rpc' = "loop"
    /\ rwg' = rwg + 1
    /\ UNCHANGED <<profileVars, ctxVars, sum, once, rCancelled, closeCount,
                   panicked, stopPc, workerVars, builderVars, respMetric,
                   stats, ghostVars, harnessVars>>

\* total > 0 && sum >= total: break, then the deferred r.wg.Done()
RunBreak ==
    /\ Running
    /\ rpc = "loop"
    /\ RunBreaks
    /\ rpc' = "exited"
    /\ rwg' = rwg - 1
    /\ UNCHANGED <<profileVars, ctxVars, sum, once, rCancelled, closeCount,
                   panicked, stopPc, workerVars, builderVars, respMetric,
                   stats, ghostVars, harnessVars>>

\* the send completes with no worker receiving, as on a channel with a buffer
RunSendBuffered(w, rnd) ==
    /\ Running
    /\ rpc = "loop"
    /\ ~RunBreaks
    /\ sum < MaxSent \/ spec.Total > 0
    /\ ~chClosed
    /\ LET i == randomPick(spec.Shares, rnd) IN
         IF i = 0
         THEN /\ panicked' = "unreachable"
              /\ UNCHANGED <<sum, workerVars, nRecv>>
         ELSE /\ sum' = sum + 1
              /\ IF wpc[w] = "recv"
                 THEN /\ wpc' = [wpc EXCEPT ![w] = "build"]
                      /\ cur' = [cur EXCEPT ![w] = [NoReq EXCEPT !.op = "builder", !.b = i]]
                      /\ nRecv' = nRecv + 1
                 ELSE UNCHANGED <<workerVars, nRecv>>
              /\ UNCHANGED panicked
    /\ UNCHANGED <<profileVars, ctxVars, rpc, rwg, once, rCancelled, closeCount,
                   stopPc, builderVars, respMetric, stats, live, executed, nPost,
                   nDel, limErr, failed, postNames, harnessVars>>

\* the send wakes every worker that waits on the channel
RunSendBroadcast(w, rnd) ==
    /\ Running
    /\ rpc = "loop"
    /\ ~RunBreaks
    /\ sum < MaxSent \/ spec.Total > 0
    /\ ~chClosed
    /\ wpc[w] = "recv"
    /\ LET i == randomPick(spec.Shares, rnd) IN
         IF i = 0
         THEN /\ panicked' = "unreachable"
              /\ UNCHANGED <<sum, workerVars, nRecv>>
         ELSE /\ sum' = sum + 1
              /\ wpc' = [v \in Workers |-> IF wpc[v] = "recv" THEN "build" ELSE wpc[v]]
              /\ cur' = [v \in Workers |->
                            IF wpc[v] = "recv"
                            THEN [NoReq EXCEPT !.op = "builder", !.b = i]
                            ELSE cur[v]]
              /\ nRecv' = nRecv + Cardinality({v \in Workers : wpc[v] = "recv"})
              /\ UNCHANGED panicked
    /\ UNCHANGED <<profileVars, ctxVars, rpc, rwg, once, rCancelled, closeCount,
                   stopPc, builderVars, respMetric, stats, live, executed, nPost,
                   nDel, limErr, failed, postNames, harnessVars>>

\* case r.reqBuilderCh <- builder: the unbuffered send meets worker w's
\* receive (for builder := range reqBuilderCh), then sum++
RunSend(w, rnd) ==
    /\ Running
    /\ rpc = "loop"
    /\ ~RunBreaks
    /\ sum < MaxSent \/ spec.Total > 0
    /\ ~chClosed
    /\ wpc[w] = "recv"
    /\ LET i == randomPick(spec.Shares, rnd) IN
         IF i = 0
         THEN /\ panicked' = "unreachable"
              /\ UNCHANGED <<sum, workerVars, nRecv>>
         ELSE /\ sum' = sum + 1
              /\ wpc' = [wpc EXCEPT ![w] = "build"]
              /\ cur' = [cur EXCEPT ![w] = [NoReq EXCEPT !.op = "builder", !.b = i]]
              /\ nRecv' = nRecv + 1
              /\ UNCHANGED panicked
    /\ UNCHANGED <<profileVars, ctxVars, rpc, rwg, once, rCancelled, closeCount,
                   stopPc, builderVars, respMetric, stats, live, executed, nPost,
                   nDel, limErr, failed, postNames, harnessVars>>

\* case r.reqBuilderCh <- builder, chosen when the channel is already closed
RunSendClosed ==
    /\ Running
    /\ rpc = "loop"
    /\ ~RunBreaks
    /\ chClosed
    /\ panicked' = "send on closed channel"
    /\ UNCHANGED <<profileVars, ctxVars, genVars, workerVars, builderVars,
                   respMetric, stats, ghostVars, harnessVars>>

\* a select that lacks the case <-ctx.Done()
RunCtxDoneOwnOnly ==
    /\ Running
    /\ rpc = "loop"
    /\ ~RunBreaks
    /\ rCancelled
    /\ rpc' = "exited"
    /\ rwg' = rwg - 1
    /\ UNCHANGED <<profileVars, ctxVars, sum, once, rCancelled, closeCount,
                   panicked, stopPc, workerVars, builderVars, respMetric,
                   stats, ghostVars, harnessVars>>

\* case <-r.ctx.Done() / case <-ctx.Done(): return, then the deferred r.wg.Done()
RunCtxDone ==
    /\ Running
    /\ rpc = "loop"
    /\ ~RunBreaks
    /\ rCancelled \/ ctxDone
    /\ rpc' = "exited"
    /\ rwg' = rwg - 1
    /\ UNCHANGED <<profileVars, ctxVars, sum, once, rCancelled, closeCount,
                   panicked, stopPc, workerVars, builderVars, respMetric,
                   stats, ghostVars, harnessVars>>

(***************************************************************************)
(* WeightedRandomRequests.Stop: r.once.Do(cancel; wg.Wait; close)          *)
(***************************************************************************)
\* Schedule calls Stop when Run has returned; other tasks call it at any time
MayCallStop(t) == rpc # "idle" /\ (t = SchedTask => rpc = "exited")

\* Stop without the sync.Once: every caller runs cancel, Wait and close
StopEnterNoOnce(t) ==
    /\ Running
    /\ stopPc[t] = "idle"
    /\ MayCallStop(t)
    /\ once' = "running"
    /\ stopPc' = [stopPc EXCEPT ![t] = "cancel"]
    /\ UNCHANGED <<profileVars, ctxVars, rpc, sum, rwg, rCancelled, closeCount,
                   panicked, workerVars, builderVars, respMetric, stats,
                   ghostVars, harnessVars>>

\* once.Do: the first caller runs the function, a caller that arrives while it
\* runs blocks on the Once's mutex, a caller that arrives later returns at once
StopEnter(t) ==
    /\ Running
    /\ stopPc[t] = "idle"
    /\ MayCallStop(t)
    /\ IF once = "fresh"
       THEN /\ once' = "running"
            /\ stopPc' = [stopPc EXCEPT ![t] = "cancel"]
       ELSE /\ once' = once
            /\ stopPc' = [stopPc EXCEPT ![t] = IF once = "done" THEN "returned" ELSE "blocked"]
    /\ UNCHANGED <<profileVars, ctxVars, rpc, sum, rwg, rCancelled, closeCount,
                   panicked, workerVars, builderVars, respMetric, stats,
                   ghostVars, harnessVars>>

\* Stop that forgets r.cancel()
StopCancelSkipped(t) ==
    /\ Running
    /\ stopPc[t] = "cancel"
    /\ stopPc' = [stopPc EXCEPT ![t] = "wgwait"]
    /\ UNCHANGED <<profileVars, ctxVars, rpc, sum, rwg, once, rCancelled,
                   closeCount, panicked, workerVars, builderVars, respMetric,
                   stats, ghostVars, harnessVars>>

\* r.cancel()
StopCancel(t) ==
    /\ Running
    /\ stopPc[t] = "cancel"
    /\ rCancelled' = TRUE
    /\ stopPc' = [stopPc EXCEPT ![t] = "wgwait"]
    /\ UNCHANGED <<profileVars, ctxVars, rpc, sum, rwg, once, closeCount,
                   panicked, workerVars, builderVars, respMetric, stats,
                   ghostVars, harnessVars>>

\* r.wg.Wait()
StopWgWait(t) ==
    /\ Running
    /\ stopPc[t] = "wgwait"
    /\ rwg = 0
    /\ stopPc' = [stopPc EXCEPT ![t] = "close"]
    /\ UNCHANGED <<profileVars, ctxVars, rpc, sum, rwg, once, rCancelled,
                   closeCount, panicked, workerVars, builderVars, respMetric,
                   stats, ghostVars, harnessVars>>

\* Stop returns without close(r.reqBuilderCh)
StopCloseForgotten(t) ==
    /\ Running
    /\ stopPc[t] = "close"
    /\ once' = "done"
    /\ stopPc' = [stopPc EXCEPT ![t] = "returned"]
    /\ UNCHANGED <<profileVars, ctxVars, rpc, sum, rwg, rCancelled, closeCount,
                   panicked, workerVars, builderVars, respMetric, stats,
                   ghostVars, harnessVars>>

\* close(r.reqBuilderCh), then once.Do marks the Once done
StopClose(t) ==
    /\ Running
    /\ stopPc[t] = "close"
    /\ IF chClosed
       THEN /\ panicked' = "close of closed channel"
            /\ UNCHANGED <<closeCount, once, stopPc>>
       ELSE /\ closeCount' = closeCount + 1
            /\ once' = "done"
            /\ stopPc' = [stopPc EXCEPT ![t] = "returned"]
            /\ UNCHANGED panicked
    /\ UNCHANGED <<profileVars, ctxVars, rpc, sum, rwg, rCancelled,
                   workerVars, builderVars, respMetric, stats, ghostVars,
                   harnessVars>>

\* a caller blocked in once.Do returns when the first call has finished
StopUnblock(t) ==
    /\ Running
    /\ stopPc[t] = "blocked"
    /\ once = "done"
    /\ stopPc' = [stopPc EXCEPT ![t] = "returned"]
    /\ UNCHANGED <<profileVars, ctxVars, rpc, sum, rwg, once, rCancelled,
                   closeCount, panicked, workerVars, builderVars, respMetric,
                   stats, ghostVars, harnessVars>>

(***************************************************************************)
(* requestPostDelBuilder.Build and PostDelDiscardRequester.Do              *)
(***************************************************************************)
\* the coin compared with <= in place of <
shouldDeleteInclusive(coin, deleteRatio) == coin <= deleteRatio

\* shouldDelete := float64(randomInt)/1000.0 < b.deleteRatio
shouldDelete(coin, deleteRatio) == coin < deleteRatio

\* name := fmt.Sprintf("%d-%d", timestamp, counter)
PostName(timestamp, counter) == <<timestamp, counter>>

\* Do with the DELETE test inverted (err == nil in place of err != nil)
PostDelDoInverted(items, operation, name, err) ==
    CASE operation = "POST" -> IF ~err THEN CachePush(items, name) ELSE items
      [] operation = "DELETE" -> IF ~err THEN CachePush(items, name) ELSE items
      [] OTHER -> items

\* Do that caches the name of a POST whatever its outcome
PostDelDoPushOnFailure(items, operation, name, err) ==
    CASE operation = "POST" -> CachePush(items, name)
      [] operation = "DELETE" -> IF err THEN CachePush(items, name) ELSE items
      [] OTHER -> items

\* the cache after Do, given the outcome err of the wrapped request
PostDelDo(items, operation, name, err) ==
    CASE operation = "POST" -> IF ~err THEN CachePush(items, name) ELSE items
      [] operation = "DELETE" -> IF err THEN CachePush(items, name) ELSE items
      [] OTHER -> items

\* a cache operation of worker w falls between the Pop and the Do of the
\* DELETE requests the other workers hold
Touch(w, c) ==
    [v \in Workers |->
        IF v # w /\ c[v].op = "DELETE" /\ wpc[v] \in {"wait", "timer", "do", "stream"}
        THEN [c[v] EXCEPT !.clean = FALSE]
        ELSE c[v]]

InFlight(w) == wpc[w] \in {"post", "wait", "timer", "do", "stream"}
PostDelInFlight == \E w \in Workers : InFlight(w) /\ cur[w].op \in {"POST", "DELETE", "builder"}

(***************************************************************************)
(* Schedule: the worker goroutines                                         *)
(***************************************************************************)
\* the loop index used as the client index, without the modulo
ClientIndexNoMod(i, n) == i

\* i%len(restCli)
ClientIndex(i, n) == i % n

\* cli := restCli[i%len(restCli)] of the goroutine started at iteration i = w - 1
cli(w) == ClientIndex(w - 1, spec.Conns)

\* for builder := range reqBuilderCh, on the closed channel: the loop ends
WorkerChanClosed(w) ==
    /\ Running
    /\ wpc[w] = "recv"
    /\ chClosed
    /\ wpc' = [wpc EXCEPT ![w] = "exit"]
    /\ UNCHANGED <<profileVars, ctxVars, genVars, panicked, cur, builderVars,
                   respMetric, stats, ghostVars, harnessVars>>

\* builder.Build(cli) up to the DELETE branch; the other kinds build a plain request
WorkerBuild(w, coin) ==
    /\ Running
    /\ wpc[w] = "build"
    /\ LET kind == spec.Kinds[cur[w].b]
           pop == CachePop(cache)
       IN  IF kind = "postDel"
           THEN IF shouldDelete(coin, spec.DeleteRatio) /\ pop.ok
                THEN /\ cache' = pop.items
                     /\ cur' = [Touch(w, cur) EXCEPT ![w] =
                                   [cur[w] EXCEPT !.op = "DELETE", !.name = pop.name,
                                                  !.lenBefore = CacheLen(cache),
                                                  !.cli = cli(w)]]
                     /\ wpc' = [wpc EXCEPT ![w] = "wait"]
                ELSE /\ cur' = [cur EXCEPT ![w] = [cur[w] EXCEPT !.cli = cli(w)]]
                     /\ wpc' = [wpc EXCEPT ![w] = "post"]
                     /\ UNCHANGED cache
           ELSE /\ cur' = [cur EXCEPT ![w] = [cur[w] EXCEPT !.op = "GET", !.cli = cli(w)]]
                /\ wpc' = [wpc EXCEPT ![w] = "wait"]
                /\ UNCHANGED cache
    /\ UNCHANGED <<profileVars, ctxVars, genVars, panicked, resourceCounter,
                   respMetric, stats, ghostVars, harnessVars>>

\* the POST branch of Build naming the request by the counter value before
\* the increment
WorkerBuildPostFromZero(w, timestamp) ==
    /\ Running
    /\ wpc[w] = "post"
    /\ resourceCounter' = resourceCounter + 1
    /\ cur' = [cur EXCEPT ![w] = [cur[w] EXCEPT !.op = "POST",
                                  !.name = PostName(timestamp, resourceCounter)]]
    /\ postNames' = Append(postNames, PostName(timestamp, resourceCounter))
    /\ wpc' = [wpc EXCEPT ![w] = "wait"]
    /\ UNCHANGED <<profileVars, ctxVars, genVars, panicked, cache, respMetric,
                   stats, live, executed, nPost, nDel, limErr, failed, nRecv, harnessVars>>

\* the POST branch of Build: atomic.AddInt64(&b.resourceCounter, 1) and the name
WorkerBuildPost(w, timestamp) ==
    /\ Running
    /\ wpc[w] = "post"
    /\ resourceCounter' = resourceCounter + 1
    /\ cur' = [cur EXCEPT ![w] = [cur[w] EXCEPT !.op = "POST",
                                  !.name = PostName(timestamp, resourceCounter + 1)]]
    /\ postNames' = Append(postNames, PostName(timestamp, resourceCounter + 1))
    /\ wpc' = [wpc EXCEPT ![w] = "wait"]
    /\ UNCHANGED <<profileVars, ctxVars, genVars, panicked, cache, respMetric,
                   stats, live, executed, nPost, nDel, limErr, failed, nRecv, harnessVars>>

\* limiter.Wait(ctx) returns nil at once: a token is available
LimiterWaitOk(w) ==
    /\ Running
    /\ wpc[w] = "wait"
    /\ ~ctxDone
    /\ wpc' = [wpc EXCEPT ![w] = "do"]
    /\ UNCHANGED <<profileVars, ctxVars, genVars, panicked, cur, builderVars,
                   respMetric, stats, ghostVars, harnessVars>>

\* limiter.Wait(ctx) has to wait for its token
LimiterWaitTimer(w) ==
    /\ Running
    /\ wpc[w] = "wait"
    /\ ~ctxDone
    /\ wpc' = [wpc EXCEPT ![w] = "timer"]
    /\ UNCHANGED <<profileVars, ctxVars, genVars, panicked, cur, builderVars,
                   respMetric, stats, ghostVars, harnessVars>>

\* the token arrives
LimiterTimerFired(w) ==
    /\ Running
    /\ wpc[w] = "timer"
    /\ wpc' = [wpc EXCEPT ![w] = "do"]
    /\ UNCHANGED <<profileVars, ctxVars, genVars, panicked, cur, builderVars,
                   respMetric, stats, ghostVars, harnessVars>>

\* the worker returns on a limiter error without calling cancel()
LimiterWaitErrNoCancel(w) ==
    /\ Running
    /\ \/ wpc[w] = "wait" /\ (ctxDone \/ ctxDeadline)
       \/ wpc[w] = "timer" /\ ctxDone
    /\ limErr' = TRUE
    /\ wpc' = [wpc EXCEPT ![w] = "exit"]
    /\ cur' = [cur EXCEPT ![w] = NoReq]
    /\ UNCHANGED <<profileVars, ctxVars, genVars, panicked, builderVars,
                   respMetric, stats, live, executed, nPost, nDel, failed, postNames, nRecv,
                   harnessVars>>

\* limiter.Wait(ctx) returns an error (the context is done, or the wait would
\* exceed its deadline): cancel(); return
LimiterWaitErr(w) ==
    /\ Running
    /\ \/ wpc[w] = "wait" /\ (ctxDone \/ ctxDeadline)
       \/ wpc[w] = "timer" /\ ctxDone
    /\ schedCancelled' = TRUE
    /\ limErr' = TRUE
    /\ wpc' = [wpc EXCEPT ![w] = "exit"]
    /\ cur' = [cur EXCEPT ![w] = NoReq]
    /\ UNCHANGED <<profileVars, callerDone, genVars, panicked, builderVars,
                   respMetric, stats, live, executed, nPost, nDel, failed, postNames, nRecv,
                   harnessVars>>

\* req.Timeout(defaultTimeout), start := time.Now(), and the request is sent
WorkerStart(w) ==
    /\ Running
    /\ wpc[w] = "do"
    /\ wpc' = [wpc EXCEPT ![w] = "stream"]
    /\ UNCHANGED <<profileVars, ctxVars, genVars, panicked, cur, builderVars,
                   respMetric, stats, ghostVars, harnessVars>>

\* lines 113-132: the request runs to its end with outcome err.  What Build
\* returned for a postDel entry is a PostDelDiscardRequester, which runs as
\* Do (lines 677-696): the wrapped request, then the post-condition on the cache.
WorkerExec(w, err) ==
    /\ Running
    /\ wpc[w] = "stream"
    /\ LET r == cur[w] IN
         /\ cache' = PostDelDo(cache, r.op, r.name, err)
         /\ cur' = [(IF cache' # cache THEN Touch(w, cur) ELSE cur)
                       EXCEPT ![w] = [r EXCEPT !.err = err]]
         /\ live' = CASE r.op = "POST" /\ ~err -> live \cup {r.name}
                      [] r.op = "DELETE" /\ ~err -> live \ {r.name}
                      [] OTHER -> live
         /\ nPost' = IF r.op = "POST" THEN nPost + 1 ELSE nPost
         /\ nDel' = IF r.op = "DELETE" THEN nDel + 1 ELSE nDel
    /\ executed' = executed + 1
    /\ failed' = IF err THEN failed + 1 ELSE failed
    /\ wpc' = [wpc EXCEPT ![w] = "observe"]
    /\ UNCHANGED <<profileVars, ctxVars, genVars, panicked, resourceCounter,
                   respMetric, stats, limErr, postNames, nRecv, harnessVars>>

\* ObserveLatency: the summary takes one more observation
ObserveLatency(m) == [m EXCEPT !.lat = m.lat + 1]

\* ObserveFailure, its second half: m.failureList = append(<the list it read>, err)
\* and atomic.AddInt64(&m.failureCount, 1)
ObserveFailure(m, read, err) ==
    [m EXCEPT !.list = Append(read, err), !.fail = m.fail + 1]

\* Gather: (latencies, failure count, error, failureList)
Gather(m) == [latencies |-> m.lat, failure |-> m.fail, failureList |-> m.list]

\* after the request: on success the deferred ObserveLatency ends the
\* iteration; on failure ObserveFailure(err) starts and reads m.failureList
\* (the sink takes no lock)
WorkerObserve(w) ==
    /\ Running
    /\ wpc[w] = "observe"
    /\ IF cur[w].err
       THEN /\ cur' = [cur EXCEPT ![w] = [cur[w] EXCEPT !.snap = respMetric.list]]
            /\ wpc' = [wpc EXCEPT ![w] = "obsfail"]
            /\ UNCHANGED respMetric
       ELSE /\ respMetric' = ObserveLatency(respMetric)
            /\ cur' = [cur EXCEPT ![w] = NoReq]
            /\ wpc' = [wpc EXCEPT ![w] = "recv"]
    /\ UNCHANGED <<profileVars, ctxVars, genVars, panicked, builderVars,
                   stats, ghostVars, harnessVars>>

\* a request error ends the worker as a limiter error does: cancel(); return
WorkerObserveFailureExits(w) ==
    /\ Running
    /\ wpc[w] = "obsfail"
    /\ respMetric' = ObserveFailure(respMetric, cur[w].snap, TransportErr)
    /\ cur' = [cur EXCEPT ![w] = NoReq]
    /\ wpc' = [wpc EXCEPT ![w] = "exit"]
    /\ schedCancelled' = TRUE
    /\ UNCHANGED <<profileVars, callerDone, genVars, panicked, builderVars,
                   stats, ghostVars, harnessVars>>

\* ObserveFailure stores the appended list and counts the failure
WorkerObserveFailure(w) ==
    /\ Running
    /\ wpc[w] = "obsfail"
    /\ respMetric' = ObserveFailure(respMetric, cur[w].snap, TransportErr)
    /\ wpc' = [wpc EXCEPT ![w] = "obslat"]
    /\ UNCHANGED <<profileVars, ctxVars, genVars, panicked, cur, builderVars,
                   stats, ghostVars, harnessVars>>

\* the failed request's deferred ObserveLatency skips its observation
WorkerObserveLatencySkipped(w) ==
    /\ Running
    /\ wpc[w] = "obslat"
    /\ cur' = [cur EXCEPT ![w] = NoReq]
    /\ wpc' = [wpc EXCEPT ![w] = "recv"]
    /\ UNCHANGED <<profileVars, ctxVars, genVars, panicked, builderVars,
                   respMetric, stats, ghostVars, harnessVars>>

\* after ObserveFailure the deferred ObserveLatency ends the iteration
WorkerObserveLatency(w) ==
    /\ Running
    /\ wpc[w] = "obslat"
    /\ respMetric' = ObserveLatency(respMetric)
    /\ cur' = [cur EXCEPT ![w] = NoReq]
    /\ wpc' = [wpc EXCEPT ![w] = "recv"]
    /\ UNCHANGED <<profileVars, ctxVars, genVars, panicked, builderVars,
                   stats, ghostVars, harnessVars>>

(***************************************************************************)
(* Schedule: the caller's task                                             *)
(***************************************************************************)
\* Schedule ignores the error of NewWeightedRandomRequests and goes on
ScheduleStartUnchecked ==
    /\ Running
    /\ rpc = "idle"
    /\ ~stats.Set
    /\ rpc' = "add"
    /\ wpc' = [w \in Workers |-> "recv"]
    /\ UNCHANGED <<profileVars, ctxVars, sum, rwg, once, rCancelled, closeCount,
                   stopPc, panicked, cur, builderVars, respMetric, stats,
                   ghostVars, harnessVars>>

\* lines 77-139: NewWeightedRandomRequests; on its error return nil, err; else
\* the limiter, the metric sink, the spec.Client worker goroutines, each with
\* its client restCli[i%len(restCli)] (an index outside the slice panics),
\* and Run is called
ScheduleStart ==
    /\ Running
    /\ rpc = "idle"
    /\ ~stats.Set
    /\ IF NewWeightedRandomRequestsFails(spec)
       THEN /\ stats' = [Set |-> TRUE, Nil |-> TRUE, Err |-> "invalid"]
            /\ schedCancelled' = TRUE
            /\ UNCHANGED <<rpc, wpc, panicked>>
       ELSE IF \E w \in Workers : cli(w) \notin 0..(spec.Conns - 1)
            THEN /\ panicked' = "index out of range"
                 /\ UNCHANGED <<rpc, wpc, stats, schedCancelled>>
            ELSE /\ rpc' = "add"
                 /\ wpc' = [w \in Workers |-> "recv"]
                 /\ UNCHANGED <<stats, schedCancelled, panicked>>
    /\ UNCHANGED <<profileVars, callerDone, sum, rwg, once, rCancelled, closeCount,
                   stopPc, cur, builderVars, respMetric,
                   ghostVars, harnessVars>>

\* Schedule returns ctx.Err() whenever the caller's context is done at the end
ScheduleReturnCtxErr ==
    /\ Running
    /\ stopPc[SchedTask] = "returned"
    /\ \A w \in Workers : wpc[w] = "exit"
    /\ ~stats.Set
    /\ LET g == Gather(respMetric) IN
         stats' = IF callerDone
                  THEN [Set |-> TRUE, Nil |-> TRUE, Err |-> "cancelled"]
                  ELSE [Set |-> TRUE, Nil |-> FALSE, Err |-> "nil", Total |-> spec.Total,
                        FailureList |-> g.failureList, Latencies |-> g.latencies,
                        Gathered |-> g, GatherErr |-> FALSE]
    /\ schedCancelled' = TRUE
    /\ UNCHANGED <<profileVars, callerDone, genVars, panicked, workerVars,
                   builderVars, respMetric, ghostVars, harnessVars>>

\* Schedule reports the number of observed requests as Total
ScheduleReturnObservedTotal ==
    /\ Running
    /\ stopPc[SchedTask] = "returned"
    /\ \A w \in Workers : wpc[w] = "exit"
    /\ ~stats.Set
    /\ LET g == Gather(respMetric) IN
         stats' = [Set |-> TRUE, Nil |-> FALSE, Err |-> "nil", Total |-> g.latencies,
                   FailureList |-> g.failureList, Latencies |-> g.latencies,
                   Gathered |-> g, GatherErr |-> FALSE]
    /\ schedCancelled' = TRUE
    /\ UNCHANGED <<profileVars, callerDone, genVars, panicked, workerVars,
                   builderVars, respMetric, ghostVars, harnessVars>>

\* wg.Wait(), Gather, the returned ResponseStats and the deferred cancel()
ScheduleReturn ==
    /\ Running
    /\ stopPc[SchedTask] = "returned"
    /\ \A w \in Workers : wpc[w] = "exit"
    /\ ~stats.Set
    /\ LET g == Gather(respMetric) IN
         stats' = [Set |-> TRUE, Nil |-> FALSE, Err |-> "nil", Total |-> spec.Total,
                   FailureList |-> g.failureList, Latencies |-> g.latencies,
                   Gathered |-> g, GatherErr |-> FALSE]
    /\ schedCancelled' = TRUE
    /\ UNCHANGED <<profileVars, callerDone, genVars, panicked, workerVars,
                   builderVars, respMetric, ghostVars, harnessVars>>

\* Gather when reg.Gather() fails: return nil, 0, err, failureList
GatherFailed(m) == [latencies |-> 0, failure |-> 0, failureList |-> m.list]

\* wg.Wait(), a Gather that fails, and the return: the error of Gather is
\* dropped and the ResponseStats is returned with a nil error
ScheduleReturnGatherErr ==
    /\ Running
    /\ stopPc[SchedTask] = "returned"
    /\ \A w \in Workers : wpc[w] = "exit"
    /\ ~stats.Set
    /\ LET g == GatherFailed(respMetric) IN
         stats' = [Set |-> TRUE, Nil |-> FALSE, Err |-> "nil", Total |-> spec.Total,
                   FailureList |-> g.failureList, Latencies |-> g.latencies,
                   Gathered |-> g, GatherErr |-> TRUE]
    /\ schedCancelled' = TRUE
    /\ UNCHANGED <<profileVars, callerDone, genVars, panicked, workerVars,
                   builderVars, respMetric, ghostVars, harnessVars>>

\* the caller cancels the context it passed to Schedule
CancelCaller ==
    /\ Running
    /\ ~callerDone
    /\ ~stats.Set
    /\ callerDone' = TRUE
    /\ UNCHANGED <<profileVars, schedCancelled, genVars, panicked, workerVars,
                   builderVars, respMetric, stats, ghostVars, harnessVars>>

\* Schedule has returned a ResponseStats / has returned its error
Returned == stats.Set /\ ~stats.Nil
ReturnedErr == stats.Set /\ stats.Nil

Next ==
    \/ ScheduleStart
    \/ RunAdd
    \/ RunBreak
    \/ \E w \in Workers, rnd \in 0..(SumShares(spec.Shares) - 1) : RunSend(w, rnd)
    \/ RunCtxDone
    \/ StopEnter(SchedTask)
    \/ StopCancel(SchedTask)
    \/ StopWgWait(SchedTask)
    \/ StopClose(SchedTask)
    \/ \E w \in Workers : WorkerChanClosed(w)
    \/ \E w \in Workers, coin \in CoinValues : WorkerBuild(w, coin)
    \/ \E w \in Workers, timestamp \in TimeStamps : WorkerBuildPost(w, timestamp)
    \/ \E w \in Workers : LimiterWaitOk(w)
    \/ \E w \in Workers : LimiterWaitTimer(w)
    \/ \E w \in Workers : LimiterTimerFired(w)
    \/ \E w \in Workers : LimiterWaitErr(w)
    \/ \E w \in Workers : WorkerStart(w)
    \/ \E w \in Workers, err \in BOOLEAN : WorkerExec(w, err)
    \/ \E w \in Workers : WorkerObserve(w)
    \/ \E w \in Workers : WorkerObserveFailure(w)
    \/ \E w \in Workers : WorkerObserveLatency(w)
    \/ ScheduleReturn
    \/ CancelCaller

Spec == Init /\ [][Next]_vars

(***************************************************************************)
(* The same run under fair scheduling: every goroutine that can take a     *)
(* step eventually takes one (the Go scheduler is preemptive), a request   *)
(* in flight ends (60 s timeout), a limiter timer fires.  The caller's     *)
(* cancellation and the generator's sends carry no fairness.               *)
(***************************************************************************)
WorkerStep(w) ==
    \/ WorkerChanClosed(w)
    \/ \E coin \in CoinValues : WorkerBuild(w, coin)
    \/ \E timestamp \in TimeStamps : WorkerBuildPost(w, timestamp)
    \/ LimiterWaitOk(w)
    \/ LimiterTimerFired(w)
    \/ LimiterWaitErr(w)
    \/ WorkerStart(w)
    \/ \E err \in BOOLEAN : WorkerExec(w, err)
    \/ WorkerObserve(w)
    \/ WorkerObserveFailure(w)
    \/ WorkerObserveLatency(w)

RunStep == RunAdd \/ RunBreak \/ RunCtxDone

ScheduleStep ==
    \/ ScheduleStart
    \/ StopEnter(SchedTask)
    \/ StopCancel(SchedTask)
    \/ StopWgWait(SchedTask)
    \/ StopClose(SchedTask)
    \/ ScheduleReturn

Fairness ==
    /\ \A w \in Workers : WF_vars(WorkerStep(w))
    /\ WF_vars(RunStep)
    /\ WF_vars(ScheduleStep)

\* the profiles of the fair runs: postDel churn at deleteRatio 0.5, every total
LiveInit ==
    /\ Init
    /\ spec.Kinds = <<"postDel">>
    /\ spec.DeleteRatio = 500

LiveSpec == LiveInit /\ [][Next]_vars /\ Fairness

\* the fair runs in which, besides, the workers keep receiving: a send that
\* stays possible (Run is in its select and a worker waits on the channel)
\* happens
SendStep == \E w \in Workers, rnd \in 0..(SumShares(spec.Shares) - 1) : RunSend(w, rnd)

SendLiveSpec == LiveInit /\ [][Next]_vars /\ Fairness /\ WF_vars(SendStep)

(***************************************************************************)
(* The same run with a metric registry that can fail: at the end Gather    *)
(* returns either the summary or an error.                                 *)
(***************************************************************************)
FaultNext ==
    \/ Next
    \/ ScheduleReturnGatherErr

FaultSpec == LiveInit /\ [][FaultNext]_vars

(***************************************************************************)
(* A longer run of one postDel entry at deleteRatio 0.5: enough requests   *)
(* for several names to be cached and several DELETEs to be in flight.     *)
(***************************************************************************)
ChurnInit ==
    /\ spec = [Total |-> MaxChurn, Shares |-> <<1>>, Kinds |-> <<"postDel">>,
               DeleteRatio |-> 500, Conns |-> 1]
    /\ ctxDeadline = FALSE
    /\ Constructed

ChurnSpec == ChurnInit /\ [][Next]_vars

(***************************************************************************)
(* The same run with every length of the client slice: fewer clients than  *)
(* workers, as many, more.                                                 *)
(***************************************************************************)
BindInit ==
    /\ \E p \in ValidProfiles, n \in 1..MaxConns :
          /\ p.Kinds = <<"postDel", "staleList">>
          /\ p.DeleteRatio = 500
          /\ spec = [p EXCEPT !.Conns = n]
    /\ ctxDeadline = FALSE
    /\ Constructed

BindSpec == BindInit /\ [][Next]_vars

(***************************************************************************)
(* The generator used through its public methods: besides Schedule's own   *)
(* call, other tasks call Stop at any moment, one after another or         *)
(* concurrently.                                                           *)
(***************************************************************************)
GenInit ==
    /\ Init
    /\ spec.Kinds = <<"postDel">>
    /\ spec.DeleteRatio = 500
    /\ ~ctxDeadline

GenNext ==
    \/ ScheduleStart
    \/ RunAdd
    \/ RunBreak
    \/ \E w \in Workers, rnd \in 0..(SumShares(spec.Shares) - 1) : RunSend(w, rnd)
    \/ RunSendClosed
    \/ RunCtxDone
    \/ \E t \in Stoppers : StopEnter(t)
    \/ \E t \in Stoppers : StopCancel(t)
    \/ \E t \in Stoppers : StopWgWait(t)
    \/ \E t \in Stoppers : StopClose(t)
    \/ \E t \in Stoppers : StopUnblock(t)
    \/ \E w \in Workers : WorkerChanClosed(w)
    \/ \E w \in Workers, coin \in CoinValues : WorkerBuild(w, coin)
    \/ \E w \in Workers, timestamp \in TimeStamps : WorkerBuildPost(w, timestamp)
    \/ \E w \in Workers : LimiterWaitOk(w)
    \/ \E w \in Workers : LimiterWaitTimer(w)
    \/ \E w \in Workers : LimiterTimerFired(w)
    \/ \E w \in Workers : LimiterWaitErr(w)
    \/ \E w \in Workers : WorkerStart(w)
    \/ \E w \in Workers, err \in BOOLEAN : WorkerExec(w, err)
    \/ \E w \in Workers : WorkerObserve(w)
    \/ \E w \in Workers : WorkerObserveFailure(w)
    \/ \E w \in Workers : WorkerObserveLatency(w)
    \/ ScheduleReturn
    \/ CancelCaller

GenSpec == GenInit /\ [][GenNext]_vars

(***************************************************************************)
(* The NameCache on its own: a single task calls Push, Pop and Len.        *)
(***************************************************************************)
CacheInit ==
    /\ Init
    /\ spec.Total = 0
    /\ spec.Kinds = <<"postDel">>
    /\ spec.DeleteRatio = 0
    /\ ~ctxDeadline

schedulerVarsNoPanic == <<profileVars, ctxVars, genVars, workerVars,
                          resourceCounter, respMetric, stats, ghostVars>>
schedulerVars == <<schedulerVarsNoPanic, panicked>>

CallPush(name) ==
    /\ Len(hPushed) < MaxOps
    /\ cache' = CachePush(cache, name)
    /\ hPushed' = Append(hPushed, name)
    /\ UNCHANGED <<laterVars, schedulerVars, hPopped, lastPop, lastLen, lastPick, picks, limVars, built>>

CallPop ==
    /\ LET pop == CachePop(cache) IN
         /\ cache' = pop.items
         /\ lastPop' = [name |-> pop.name, ok |-> pop.ok]
         /\ hPopped' = IF pop.ok THEN Append(hPopped, pop.name) ELSE hPopped
    /\ UNCHANGED <<laterVars, schedulerVars, hPushed, lastLen, lastPick, picks, limVars, built>>

CallLen ==
    /\ lastLen' = CacheLen(cache)
    /\ UNCHANGED <<laterVars, schedulerVars, cache, hPushed, hPopped, lastPop, lastPick, picks, limVars, built>>

CacheNext ==
    \/ \E name \in HarnessNames : CallPush(name)
    \/ CallPop
    \/ CallLen

CacheSpec == CacheInit /\ [][CacheNext]_vars

(***************************************************************************)
(* The NameCache used by several workers at once.  Every method is         *)
(* c.mu.Lock(); defer c.mu.Unlock(); body.  A call is followed from its     *)
(* invocation through the lock, the statements of its body and the unlock  *)
(* with which it returns.                                                  *)
(***************************************************************************)
LinIds == {lin[k].id : k \in DOMAIN lin}
InCritical(w) == cop[w].pc \in {"body", "front", "remove", "unlock"}

\* list.Remove(e): takes the element out if it still belongs to the list
ListRemove(q, name) == SelectSeq(q, LAMBDA x : x # name)

\* the record of a call's effect
Effect(w, c) == [id |-> c.id, w |-> w, op |-> c.op, name |-> c.name, ok |-> c.ok, n |-> c.n]

\* worker w calls Push(name), Pop() or Len()
CacheCall(w, op) ==
    /\ Running
    /\ cop[w].pc = "idle"
    /\ nCalls < MaxCalls
    /\ nCalls' = nCalls + 1
    /\ cop' = [cop EXCEPT ![w] =
                  [NoCall EXCEPT !.op = op, !.pc = "lock", !.id = nCalls + 1,
                                 !.name = IF op = "Push" THEN <<w, nCalls + 1>>
                                          ELSE EmptyName]]
    /\ UNCHANGED <<schedulerVars, cache, seqHarnessVars, mu, lin, sliceVars, poolVars>>

\* a Lock that does not wait for the holder
MuLockNoExclusion(w) ==
    /\ Running
    /\ cop[w].pc = "lock"
    /\ mu' = w
    /\ cop' = [cop EXCEPT ![w] = [cop[w] EXCEPT !.pc = "body"]]
    /\ UNCHANGED <<schedulerVars, cache, seqHarnessVars, lin, nCalls, sliceVars, poolVars>>

\* c.mu.Lock()
MuLock(w) ==
    /\ Running
    /\ cop[w].pc = "lock"
    /\ mu = 0
    /\ mu' = w
    /\ cop' = [cop EXCEPT ![w] = [cop[w] EXCEPT !.pc = "body"]]
    /\ UNCHANGED <<schedulerVars, cache, seqHarnessVars, lin, nCalls, sliceVars, poolVars>>

\* Push: c.items.PushBack(name)
PushBody(w) ==
    /\ Running
    /\ cop[w].pc = "body"
    /\ cop[w].op = "Push"
    /\ cache' = CachePush(cache, cop[w].name)
    /\ lin' = Append(lin, Effect(w, cop[w]))
    /\ cop' = [cop EXCEPT ![w] = [cop[w] EXCEPT !.pc = "unlock"]]
    /\ UNCHANGED <<schedulerVars, seqHarnessVars, mu, nCalls, sliceVars, poolVars>>

\* Pop: if c.items.Len() == 0 { return "", false }
PopLen(w) ==
    /\ Running
    /\ cop[w].pc = "body"
    /\ cop[w].op = "Pop"
    /\ IF CacheLen(cache) = 0
       THEN LET c == [cop[w] EXCEPT !.name = EmptyName, !.ok = FALSE, !.pc = "unlock"]
            IN  /\ cop' = [cop EXCEPT ![w] = c]
                /\ lin' = Append(lin, Effect(w, c))
       ELSE /\ cop' = [cop EXCEPT ![w] = [cop[w] EXCEPT !.pc = "front"]]
            /\ UNCHANGED lin
    /\ UNCHANGED <<schedulerVars, cache, seqHarnessVars, mu, nCalls, sliceVars, poolVars>>

\* Pop: front := c.items.Front(); name := front.Value.(string)
PopFront(w) ==
    /\ Running
    /\ cop[w].pc = "front"
    /\ IF cache = << >>
       THEN /\ panicked' = "nil pointer dereference"
            /\ UNCHANGED cop
       ELSE /\ cop' = [cop EXCEPT ![w] = [cop[w] EXCEPT !.name = Head(cache),
                                                       !.pc = "remove"]]
            /\ UNCHANGED panicked
    /\ UNCHANGED <<schedulerVarsNoPanic, cache, seqHarnessVars, mu, lin, nCalls,
                   sliceVars, poolVars>>

\* Pop: c.items.Remove(front); return name, true
PopRemove(w) ==
    /\ Running
    /\ cop[w].pc = "remove"
    /\ cache' = ListRemove(cache, cop[w].name)
    /\ LET c == [cop[w] EXCEPT !.ok = TRUE, !.pc = "unlock"]
       IN  /\ cop' = [cop EXCEPT ![w] = c]
           /\ lin' = Append(lin, Effect(w, c))
    /\ UNCHANGED <<schedulerVars, seqHarnessVars, mu, nCalls, sliceVars, poolVars>>

\* Len: return c.items.Len()
LenBody(w) ==
    /\ Running
    /\ cop[w].pc = "body"
    /\ cop[w].op = "Len"
    /\ LET c == [cop[w] EXCEPT !.n = CacheLen(cache), !.pc = "unlock"]
       IN  /\ cop' = [cop EXCEPT ![w] = c]
           /\ lin' = Append(lin, Effect(w, c))
    /\ UNCHANGED <<schedulerVars, cache, seqHarnessVars, mu, nCalls, sliceVars, poolVars>>

\* the deferred c.mu.Unlock(), and the call returns
MuUnlock(w) ==
    /\ Running
    /\ cop[w].pc = "unlock"
    /\ IF mu = 0
       THEN /\ panicked' = "unlock of unlocked mutex"
            /\ UNCHANGED <<mu, cop>>
       ELSE /\ mu' = 0
            /\ cop' = [cop EXCEPT ![w] = NoCall]
            /\ UNCHANGED panicked
    /\ UNCHANGED <<schedulerVarsNoPanic, cache, seqHarnessVars, lin, nCalls,
                   sliceVars, poolVars>>

ConcNext ==
    \/ \E w \in Workers, op \in {"Push", "Pop", "Len"} : CacheCall(w, op)
    \/ \E w \in Workers : MuLock(w)
    \/ \E w \in Workers : PushBody(w)
    \/ \E w \in Workers : PopLen(w)
    \/ \E w \in Workers : PopFront(w)
    \/ \E w \in Workers : PopRemove(w)
    \/ \E w \in Workers : LenBody(w)
    \/ \E w \in Workers : MuUnlock(w)

ConcSpec == CacheInit /\ [][ConcNext]_vars

(***************************************************************************)
(* The slice NameCache (items []string) next to the container/list one:    *)
(* a single task makes the same Push, Pop and Len calls on both.  The      *)
(* slice c.items is kept as its backing array and the index in it where    *)
(* c.items starts: c.items[1:] moves the start, append writes at the end.  *)
(***************************************************************************)
\* the elements of c.items
SliceItems(sl) == SubSeq(sl.arr, sl.lo + 1, Len(sl.arr))

\* len(c.items)
SliceLen(sl) == Len(sl.arr) - sl.lo

\* Pop that takes the last element: name := c.items[len-1]; c.items = c.items[:len-1]
SlicePopLast(sl) ==
    IF SliceLen(sl) = 0
    THEN [name |-> EmptyName, ok |-> FALSE, slice |-> sl]
    ELSE [name |-> sl.arr[Len(sl.arr)], ok |-> TRUE,
          slice |-> [sl EXCEPT !.arr = SubSeq(sl.arr, 1, Len(sl.arr) - 1)]]

\* Pop: name := c.items[0]; c.items = c.items[1:]
SlicePop(sl) ==
    IF SliceLen(sl) = 0
    THEN [name |-> EmptyName, ok |-> FALSE, slice |-> sl]
    ELSE [name |-> sl.arr[sl.lo + 1], ok |-> TRUE,
          slice |-> [sl EXCEPT !.lo = sl.lo + 1]]

\* Push: c.items = append(c.items, name)
SlicePush(sl, name) == [sl EXCEPT !.arr = Append(sl.arr, name)]

BothPush(name) ==
    /\ Len(hPushed) < MaxOps
    /\ cache' = CachePush(cache, name)
    /\ slice' = SlicePush(slice, name)
    /\ hPushed' = Append(hPushed, name)
    /\ UNCHANGED <<schedulerVars, hPopped, lastPop, lastLen, lastPick, picks, limVars,
                   built, concVars, slPop, slLen, poolVars>>

BothPop ==
    /\ LET pop == CachePop(cache)
           spop == SlicePop(slice)
       IN  /\ cache' = pop.items
           /\ lastPop' = [name |-> pop.name, ok |-> pop.ok]
           /\ hPopped' = IF pop.ok THEN Append(hPopped, pop.name) ELSE hPopped
           /\ slice' = spop.slice
           /\ slPop' = [name |-> spop.name, ok |-> spop.ok]
    /\ UNCHANGED <<schedulerVars, hPushed, lastLen, lastPick, picks, limVars,
                   built, concVars, slLen, poolVars>>

BothLen ==
    /\ lastLen' = CacheLen(cache)
    /\ slLen' = SliceLen(slice)
    /\ UNCHANGED <<schedulerVars, cache, hPushed, hPopped, lastPop, lastPick, picks,
                   limVars, built, concVars, slice, slPop, poolVars>>

EquivNext ==
    \/ \E name \in HarnessNames : BothPush(name)
    \/ BothPop
    \/ BothLen

EquivSpec == CacheInit /\ [][EquivNext]_vars

(***************************************************************************)
(* randomPick on its own: a generator built from any list of positive      *)
(* shares, and randomPick called with every value the random source can    *)
(* return, in any order.                                                   *)
(***************************************************************************)
ShareLists == UNION {[1..n -> 1..MaxShare] : n \in 1..MaxBuilders}

PickInit ==
    /\ \E s \in ShareLists :
          spec = [Total |-> 0, Shares |-> s,
                  Kinds |-> [i \in 1..Len(s) |-> "staleList"], DeleteRatio |-> 0]
    /\ ctxDeadline = FALSE
    /\ Constructed

\* one call of randomPick in which rand.Int returns rnd
CallRandomPick(rnd) ==
    /\ Running
    /\ LET b == randomPick(spec.Shares, rnd) IN
         /\ lastPick' = [rnd |-> rnd, b |-> b]
         /\ picks' = picks \cup {[rnd |-> rnd, b |-> b]}
         /\ panicked' = IF b = 0 THEN "unreachable" ELSE panicked
    /\ UNCHANGED <<laterVars, schedulerVarsNoPanic, cache, hPushed, hPopped, lastPop, lastLen, limVars, built>>

PickNext == \E rnd \in 0..(SumShares(spec.Shares) - 1) : CallRandomPick(rnd)

PickSpec == PickInit /\ [][PickNext]_vars

(***************************************************************************)
(* The limiter in time.  Time advances in ticks of 1/qps second, the time  *)
(* in which the bucket gains one token; a second is qps ticks.  Workers    *)
(* call limiter.Wait, hold the token for as long as the scheduler keeps    *)
(* them from running, and start their request.                             *)
(***************************************************************************)
\* qps := spec.Rate; if qps == 0 { qps = math.MaxInt32 }
effectiveQPS(rate) == IF rate = 0 THEN MaxInt32 ELSE rate

\* the token bucket: one token more per tick up to the burst, one less per grant
Refill(tokens) == IF tokens < Burst THEN tokens + 1 ELSE Burst
TakeToken(tokens) == tokens - 1

RECURSIVE SumSeq(_)
SumSeq(q) == IF q = << >> THEN 0 ELSE Head(q) + SumSeq(Tail(q))

\* the per-tick counts of the last second, the current tick last
BumpLast(q) == [q EXCEPT ![Len(q)] = q[Len(q)] + 1]
Slide(q, n) == IF Len(q) < n THEN Append(q, 0) ELSE Append(Tail(q), 0)

LimInit ==
    /\ \E r \in 1..MaxRate :
          spec = [Total |-> 0, Shares |-> <<1>>, Kinds |-> <<"staleList">>,
                  DeleteRatio |-> 0, Rate |-> r]
    /\ ctxDeadline = FALSE
    /\ Constructed

\* limiter.Wait(ctx) returns nil without taking a token from the bucket
TimedWaitNoToken(w) ==
    /\ ~holds[w]
    /\ holds' = [holds EXCEPT ![w] = TRUE]
    /\ clock' = [clock EXCEPT !.g = BumpLast(clock.g)]
    /\ UNCHANGED <<laterVars, schedulerVars, cache, hPushed, hPopped, lastPop, lastLen,
                   lastPick, picks, bucket, built>>

\* limiter.Wait(ctx) returns nil: the worker took a token of the shared bucket
TimedWaitOk(w) ==
    /\ ~holds[w]
    /\ bucket >= 1
    /\ bucket' = TakeToken(bucket)
    /\ holds' = [holds EXCEPT ![w] = TRUE]
    /\ clock' = [clock EXCEPT !.g = BumpLast(clock.g)]
    /\ UNCHANGED <<laterVars, schedulerVars, cache, hPushed, hPopped, lastPop, lastLen,
                   lastPick, picks, built>>

\* the worker starts the request it took the token for, and comes back for
\* the next builder when the request has ended
TimedStart(w) ==
    /\ holds[w]
    /\ holds' = [holds EXCEPT ![w] = FALSE]
    /\ clock' = [clock EXCEPT !.s = BumpLast(clock.s)]
    /\ UNCHANGED <<laterVars, schedulerVars, cache, hPushed, hPopped, lastPop, lastLen,
                   lastPick, picks, bucket, built>>

\* 1/qps second passes
Tick ==
    /\ clock.now < MaxTick
    /\ bucket' = Refill(bucket)
    /\ clock' = [now |-> clock.now + 1,
                 g |-> Slide(clock.g, effectiveQPS(spec.Rate)),
                 s |-> Slide(clock.s, effectiveQPS(spec.Rate))]
    /\ UNCHANGED <<laterVars, schedulerVars, cache, hPushed, hPopped, lastPop, lastLen,
                   lastPick, picks, holds, built>>

LimNext ==
    \/ \E w \in Workers : TimedWaitOk(w)
    \/ \E w \in Workers : TimedStart(w)
    \/ Tick

LimSpec == LimInit /\ [][LimNext]_vars

(***************************************************************************)
(* The request builders on their own: one builder made from one request    *)
(* entry, Build called on it and the Requester it returned run to its end, *)
(* one call after the other.                                               *)
(***************************************************************************)
\* a path component: a plain string, Sprintf("%s-%d", s, a), Sprintf("%d-%d", a, b)
Str(s) == [fmt |-> "%s", s |-> s, a |-> 0, b |-> 0]
PatchName(name, suffix) == [fmt |-> "%s-%d", s |-> name, a |-> suffix, b |-> 0]
NameComp(name) == [fmt |-> "%d-%d", s |-> "", a |-> name[1], b |-> name[2]]

Groups == {"", "apps"}
Namespaces == {"", "default"}
\* request entries; keySpaceSize is a field of the patch entries only
Entries == {e \in [kind : SupportedKinds, group : Groups, version : {"v1"},
                   namespace : Namespaces, resource : {"pods"}, name : {"x"},
                   keySpaceSize : 1..MaxKeySpace] :
               e.kind # "patch" => e.keySpaceSize = 1}

\* the builder type the switch of NewWeightedRandomRequests makes for an entry
BuilderType(kind) ==
    CASE kind \in {"staleList", "quorumList"} -> "list"
      [] kind \in {"staleGet", "quorumGet"} -> "get"
      [] OTHER -> kind

\* the stale and the quorum entries with their resourceVersion exchanged
BuilderResourceVersionSwapped(kind) ==
    CASE kind \in {"staleList", "staleGet"} -> ""
      [] OTHER -> "0"

\* the resourceVersion the switch of NewWeightedRandomRequests passes
BuilderResourceVersion(kind) ==
    CASE kind \in {"staleList", "staleGet"} -> "0"
      [] OTHER -> ""

newBuilder(e) ==
    [type |-> BuilderType(e.kind), group |-> e.group, version |-> e.version,
     resource |-> e.resource, namespace |-> e.namespace, name |-> e.name,
     resourceVersion |-> BuilderResourceVersion(e.kind),
     keySpaceSize |-> e.keySpaceSize]

\* a draw that may return max itself
randIntInclusive(max) == 0..max

\* the values rand.Int(rand.Reader, max) returns: [0, max)
randInt(max) == 0..(max - 1)

\* the group test inverted
GroupVersionPathInverted(group, version) ==
    IF group # "" THEN <<Str("api"), Str(version)>>
    ELSE <<Str("apis"), Str(group), Str(version)>>

\* if b.version.Group == "" { "api", version } else { "apis", group, version }
GroupVersionPath(group, version) ==
    IF group = "" THEN <<Str("api"), Str(version)>>
    ELSE <<Str("apis"), Str(group), Str(version)>>

\* if b.namespace != "" { "namespaces", namespace }
NamespacePath(namespace) ==
    IF namespace # "" THEN <<Str("namespaces"), Str(namespace)>> ELSE << >>

ScopePath(b) == GroupVersionPath(b.group, b.version) \o NamespacePath(b.namespace)

\* Build of the builders that keep no state: method, path, resourceVersion
\* parameter ("unset" where the request has none)
BuildPlain(b, suffix) ==
    CASE b.type = "get" ->
            [method |-> "GET", comps |-> ScopePath(b) \o <<Str(b.resource), Str(b.name)>>,
             resourceVersion |-> b.resourceVersion]
      [] b.type = "list" ->
            [method |-> "LIST", comps |-> ScopePath(b) \o <<Str(b.resource)>>,
             resourceVersion |-> b.resourceVersion]
      [] b.type = "watchList" ->
            [method |-> "WATCHLIST", comps |-> ScopePath(b) \o <<Str(b.resource)>>,
             resourceVersion |-> ""]
      [] b.type = "getPodLog" ->
            [method |-> "POD_LOG",
             comps |-> <<Str("api"), Str("v1"), Str("namespaces"), Str(b.namespace),
                         Str("pods"), Str(b.name), Str("log")>>,
             resourceVersion |-> "unset"]
      [] b.type = "patch" ->
            [method |-> "PATCH",
             comps |-> ScopePath(b) \o <<Str(b.resource), PatchName(b.name, suffix)>>,
             resourceVersion |-> "unset"]

\* requestPostDelBuilder.Build: the Requester, the cache and the counter after it
BuildPostDel(b, items, counter, coin, deleteRatio, timestamp) ==
    LET pop == CachePop(items) IN
    IF shouldDelete(coin, deleteRatio) /\ pop.ok
    THEN [method |-> "DELETE", operation |-> "DELETE", name |-> pop.name,
          comps |-> ScopePath(b) \o <<Str(b.resource), NameComp(pop.name)>>,
          items |-> pop.items, counter |-> counter]
    ELSE [method |-> "POST", operation |-> "POST",
          name |-> PostName(timestamp, counter + 1),
          comps |-> ScopePath(b) \o <<Str(b.resource)>>,
          items |-> items, counter |-> counter + 1]

BuildInit ==
    /\ \E e \in Entries, d \in DeleteRatios :
          spec = [Total |-> 0, Shares |-> <<1>>, Kinds |-> <<e.kind>>,
                  DeleteRatio |-> d, Entry |-> e]
    /\ ctxDeadline = FALSE
    /\ Constructed

\* one call of Build on the builder of the entry
CallBuild(coin, timestamp, suffix) ==
    /\ Running
    /\ built.done
    /\ resourceCounter < MaxBuilds
    /\ LET b == newBuilder(spec.Entry) IN
         IF b.type = "patch" THEN suffix \in randInt(b.keySpaceSize) ELSE suffix = 0
    /\ LET b == newBuilder(spec.Entry) IN
         IF b.type = "postDel"
         THEN LET r == BuildPostDel(b, cache, resourceCounter, coin,
                                    spec.DeleteRatio, timestamp)
              IN /\ built' = [called |-> TRUE, done |-> FALSE, coin |-> coin,
                              timestamp |-> timestamp, suffix |-> 0,
                              cacheBefore |-> cache, cacheAfter |-> r.items,
                              counterBefore |-> resourceCounter,
                              method |-> r.method, comps |-> r.comps,
                              resourceVersion |-> "unset",
                              operation |-> r.operation, name |-> r.name]
                 /\ cache' = r.items
                 /\ resourceCounter' = r.counter
                 /\ postNames' = IF r.operation = "POST"
                                 THEN Append(postNames, r.name) ELSE postNames
         ELSE LET r == BuildPlain(b, suffix)
              IN /\ built' = [called |-> TRUE, done |-> FALSE, coin |-> 0,
                              timestamp |-> 0, suffix |-> suffix,
                              cacheBefore |-> cache, cacheAfter |-> cache,
                              counterBefore |-> resourceCounter,
                              method |-> r.method, comps |-> r.comps,
                              resourceVersion |-> r.resourceVersion,
                              operation |-> "", name |-> << >>]
                 /\ UNCHANGED <<cache, resourceCounter, postNames>>
    /\ UNCHANGED <<profileVars, ctxVars, genVars, workerVars, respMetric, stats,
                   live, executed, nPost, nDel, limErr, failed, nRecv, panicked, hPushed,
                   hPopped, lastPop, lastLen, lastPick, picks, limVars, laterVars>>

\* the Requester that Build returned runs to its end with outcome err
CallDo(err) ==
    /\ Running
    /\ ~built.done
    /\ cache' = PostDelDo(cache, built.operation, built.name, err)
    /\ built' = [built EXCEPT !.done = TRUE]
    /\ UNCHANGED <<laterVars, schedulerVars, hPushed, hPopped, lastPop, lastLen,
                   lastPick, picks, limVars>>

BuildNext ==
    \/ \E coin \in CoinValues, timestamp \in TimeStamps, suffix \in 0..MaxKeySpace :
          CallBuild(coin, timestamp, suffix)
    \/ \E err \in BOOLEAN : CallDo(err)

BuildSpec == BuildInit /\ [][BuildNext]_vars

(***************************************************************************)
(* kperf virtualcluster nodepool batch-add: the Action of the command,     *)
(* called once with its --nodes and --batch-size flags.  CreateNodepool    *)
(* either creates the nodepool it is asked for or fails and creates        *)
(* nothing.                                                                *)
(***************************************************************************)
\* the batch size without the cut at the last batch
currentBatchSizeUncut(i, batchSize, totalNodes) == batchSize

\* currentBatchSize := batchSize; if i+currentBatchSize > totalNodes { totalNodes - i }
currentBatchSize(i, batchSize, totalNodes) ==
    IF i + batchSize > totalNodes THEN totalNodes - i ELSE batchSize

\* batchNodepoolName := fmt.Sprintf("%s-%d", nodepoolName, i/batchSize)
batchNodepoolName(prefix, i, batchSize) == PatchName(prefix, i \div batchSize)

\* virtualcluster.CreateNodepool: the nodepools after a call that succeeded
CreateNodepool(pools, name, count) == Append(pools, [name |-> name, count |-> count])

\* lines 171-199: the argument, the priority level configuration and the
\* labels (setupOk tells whether all of that succeeded), then the flags and
\* the test of batch-size
BatchAddCall(nodes, batchSize, setupOk) ==
    /\ cmd.pc = "idle"
    /\ cmd' = IF ~setupOk
              THEN [totalNodes |-> nodes, batchSize |-> batchSize, i |-> 0,
                    pc |-> "returned", err |-> "setup failed"]
              ELSE IF batchSize <= 0
              THEN [totalNodes |-> nodes, batchSize |-> batchSize, i |-> 0,
                    pc |-> "returned", err |-> "batch-size must be greater than zero"]
              ELSE [totalNodes |-> nodes, batchSize |-> batchSize, i |-> 0,
                    pc |-> "loop", err |-> "nil"]
    /\ UNCHANGED <<schedulerVars, cache, seqHarnessVars, concVars, sliceVars, nodepools>>

\* one iteration of the loop: the batch, its name, CreateNodepool with
\* outcome ok; return the error if it failed, else i += batchSize
BatchAddIterate(ok) ==
    /\ cmd.pc = "loop"
    /\ cmd.i < cmd.totalNodes
    /\ LET size == currentBatchSize(cmd.i, cmd.batchSize, cmd.totalNodes)
           name == batchNodepoolName("np", cmd.i, cmd.batchSize)
       IN  IF ok
           THEN /\ nodepools' = CreateNodepool(nodepools, name, size)
                /\ cmd' = [cmd EXCEPT !.i = cmd.i + cmd.batchSize]
           ELSE /\ cmd' = [cmd EXCEPT !.pc = "returned",
                                      !.err = "failed to create nodepool batch"]
                /\ UNCHANGED nodepools
    /\ UNCHANGED <<schedulerVars, cache, seqHarnessVars, concVars, sliceVars>>

\* i < totalNodes is false: return nil
BatchAddReturn ==
    /\ cmd.pc = "loop"
    /\ ~(cmd.i < cmd.totalNodes)
    /\ cmd' = [cmd EXCEPT !.pc = "returned"]
    /\ UNCHANGED <<schedulerVars, cache, seqHarnessVars, concVars, sliceVars, nodepools>>

PoolNext ==
    \/ \E nodes \in 0..MaxNodes, batchSize \in (-1)..MaxBatch, setupOk \in BOOLEAN :
          BatchAddCall(nodes, batchSize, setupOk)
    \/ \E ok \in BOOLEAN : BatchAddIterate(ok)
    \/ BatchAddReturn

PoolSpec == CacheInit /\ [][PoolNext]_vars

(***************************************************************************)
(* Properties                                                              *)
(***************************************************************************)
AllExited == \A w \in Workers : wpc[w] = "exit"
ExecEnds(w) == wpc[w] = "stream" /\ wpc'[w] = "observe"

\* C1: total fidelity. With a finite total T > 0, no cancellation by the
\* caller and no limiter error, when Schedule has returned exactly T requests
\* were executed, exactly T latency observations were recorded and the
\* reported total is T.
C1_TotalFidelity ==
    (Returned /\ spec.Total > 0 /\ ~callerDone /\ ~limErr) =>
        /\ executed = spec.Total
        /\ respMetric.lat = spec.Total
        /\ stats.Total = spec.Total

C1_Witness ==
    /\ Returned /\ ~callerDone /\ ~limErr
    /\ spec.Total = MaxTotal
    /\ executed = MaxTotal
    /\ respMetric.fail >= 1
    /\ respMetric.fail < respMetric.lat

\* C2: cancellation terminates the run. Once the caller's context is
\* cancelled (and requests in flight end), Schedule eventually returns, and
\* then Run has exited and every worker has exited.
C2_CancelTerminates ==
    callerDone ~> (Returned /\ rpc = "exited" /\ AllExited)

C2_Witness ==
    /\ callerDone /\ Returned /\ AllExited
    /\ limErr
    /\ executed >= 1
    /\ spec.Total = 0

\* C3: post-condition of PostDelDiscardRequester.Do. The step that ends a
\* postDel request appends the name to the cache after a successful POST and
\* after a failed DELETE, and leaves the cache as it is after a failed POST
\* and after a successful DELETE.
C3_PostDelPostCondition ==
    [][\A w \in Workers :
          (ExecEnds(w) /\ cur[w].op \in {"POST", "DELETE"}) =>
             cache' = IF \/ cur[w].op = "POST" /\ ~cur'[w].err
                         \/ cur[w].op = "DELETE" /\ cur'[w].err
                      THEN Append(cache, cur[w].name)
                      ELSE cache]_vars

C3_Witness ==
    \E w \in Workers :
        /\ wpc[w] = "observe"
        /\ cur[w].op = "DELETE"
        /\ cur[w].err
        /\ cache # << >>
        /\ cache[Len(cache)] = cur[w].name

\* C4: cache convergence. Whenever no postDel request is in flight, the
\* cache holds exactly the names POSTed successfully and not DELETEd
\* successfully, also after limiter errors and cancellation.
C4_CacheConverges ==
    ~PostDelInFlight => (Range(cache) = live /\ Len(cache) = Cardinality(live))

\* C5: cache size when everything succeeds. After a completed run (finite
\* total, no cancellation, no limiter error) in which no request failed, the
\* cache length is POSTs minus DELETEs, and for a profile of postDel entries
\* only POSTs plus DELETEs is the total.
C5_CacheSizeAllSucceed ==
    (Returned /\ spec.Total > 0 /\ ~callerDone /\ ~limErr /\ respMetric.fail = 0) =>
        /\ Len(cache) = nPost - nDel
        /\ (spec.Kinds = <<"postDel">> => nPost + nDel = spec.Total)

C5_Witness ==
    /\ Returned /\ ~callerDone /\ ~limErr /\ respMetric.fail = 0
    /\ spec.Kinds = <<"postDel">>
    /\ spec.Total = MaxTotal
    /\ nDel >= 1
    /\ nPost >= 1

\* C6: cache rollback. When a DELETE built for a popped name fails and no
\* other cache operation fell between the Pop and the end of the DELETE, the
\* cache is as long as it was before the Pop and holds the name again.
C6_CacheRollback ==
    [][\A w \in Workers :
          (ExecEnds(w) /\ cur[w].op = "DELETE" /\ cur'[w].err /\ cur[w].clean) =>
             /\ Len(cache') = cur[w].lenBefore
             /\ cur[w].name \in Range(cache')
             /\ CachePop(cache').ok]_vars

C6_Witness ==
    \E w \in Workers :
        /\ wpc[w] = "observe"
        /\ cur[w].op = "DELETE"
        /\ cur[w].err
        /\ cur[w].clean
        /\ Len(cache) = cur[w].lenBefore
        /\ CachePop(cache).name = cur[w].name

\* C7: the NameCache is strictly FIFO. The names returned by the successful
\* Pops, in call order, followed by the names still cached, are exactly the
\* names pushed, in call order.
C7_Fifo == hPushed = hPopped \o cache

C7_Witness ==
    /\ Len(hPushed) >= 3
    /\ Len(hPopped) = 2
    /\ hPopped[1] # hPopped[2]
    /\ cache # << >>

\* C8: emptiness and length. Pop returns ok = false exactly when the cache
\* is empty, then returns the empty string and leaves the cache as it is;
\* Len is the number of Pushes minus the number of successful Pops, never
\* negative.
C8_EmptyAndLen ==
    /\ [](CacheLen(cache) = Len(hPushed) - Len(hPopped) /\ CacheLen(cache) >= 0)
    /\ [][CallPop => /\ (~lastPop'.ok <=> cache = << >>)
                     /\ (cache = << >> => lastPop'.name = EmptyName /\ cache' = cache)
                     /\ (lastPop'.ok => Len(cache') = Len(cache) - 1)]_vars
    /\ [][CallLen => lastLen' = Len(hPushed) - Len(hPopped)]_vars

C8_Witness ==
    /\ ~lastPop.ok
    /\ Len(hPopped) >= 2
    /\ cache = << >>
    /\ lastLen >= 2

\* C9: Stop is idempotent. However many tasks call Stop, in sequence or
\* concurrently, the channel is closed once, no close panics, and a call
\* that is not the first one changes nothing of the generator.
C9_StopIdempotent ==
    /\ [](/\ closeCount <= 1
          /\ panicked # "close of closed channel"
          /\ ((\E t \in Stoppers : stopPc[t] = "returned") => closeCount = 1))
    /\ [][\A t \in Stoppers :
             (/\ stopPc[t] \in {"idle", "blocked"}
              /\ stopPc'[t] \in {"blocked", "returned"}
              /\ stopPc'[t] # stopPc[t]) =>
                UNCHANGED <<rCancelled, rwg, closeCount, once, rpc, sum, panicked>>]_vars

C9_Witness ==
    /\ \A t \in Stoppers : stopPc[t] = "returned"
    /\ closeCount = 1
    /\ panicked = "none"

C11_FailureIsRecorded ==
    /\ [](Returned => stats.Err = "nil")
    /\ [][\A w \in Workers :
             wpc[w] \in {"obsfail", "obslat"} /\ wpc'[w] # wpc[w] =>
                /\ wpc[w] = "obsfail" => wpc'[w] = "obslat" /\ respMetric'.fail = respMetric.fail + 1
                /\ wpc[w] = "obslat" => wpc'[w] = "recv"
                /\ \A v \in Workers \ {w} : wpc'[v] = wpc[v]
                /\ UNCHANGED <<schedCancelled, rCancelled, rpc, stats, panicked>>]_vars

C11_Witness ==
    /\ Returned
    /\ stats.Err = "nil"
    /\ executed >= 2
    /\ failed = executed
    /\ Len(stats.FailureList) >= 1

C13_CancellationResult ==
    stats.Set =>
       /\ (stats.Err = "cancelled" => executed = 0)
       /\ (executed >= 1 =>
              /\ Returned
              /\ stats.Err = "nil"
              /\ stats.Latencies = executed)

C13_Witness ==
    /\ Returned
    /\ callerDone
    /\ stats.Err = "nil"
    /\ executed >= 1
    /\ executed < spec.Total
    /\ stats.Latencies = executed

\* C14: an invalid profile performs no I/O. When the profile fails
\* validation (or names a request kind that has no builder), Schedule
\* returns an error and a nil ResponseStats, and at no moment of that call
\* is the generator run, a worker started, a request built or executed, or
\* an observation made.
C14_InvalidProfileNoIO ==
    NewWeightedRandomRequestsFails(spec) =>
       /\ rpc = "idle"
       /\ \A w \in Workers : wpc[w] = "unstarted" /\ cur[w] = NoReq
       /\ executed = 0
       /\ resourceCounter = 0
       /\ respMetric.lat = 0 /\ respMetric.fail = 0
       /\ (stats.Set => ReturnedErr /\ stats.Err = "invalid")

C14_Witness ==
    /\ ~Validate(spec)
    /\ ReturnedErr
    /\ stats.Err = "invalid"
    /\ schedCancelled
    /\ \A w \in Workers : wpc[w] = "unstarted"

\* w1 + .. + wi
Prefix(shares, i) == SumShares(SubSeq(shares, 1, i))

\* C16: weighted selection. For shares [w1..wk] with sum S > 0, randomPick
\* maps a draw r in [0,S) to the builder i with w1+..+w(i-1) <= r <
\* w1+..+wi and to no other; once every draw of [0,S) has been made,
\* exactly wi of them selected builder i; every draw selects a builder and
\* panic("unreachable") is never reached.
C16_WeightedSelection ==
    LET shares == spec.Shares
        S == SumShares(shares)
    IN  /\ panicked # "unreachable"
        /\ \A p \in picks :
              /\ p.b \in 1..Len(shares)
              /\ \A i \in 1..Len(shares) :
                    (Prefix(shares, i - 1) <= p.rnd /\ p.rnd < Prefix(shares, i)) <=> i = p.b
        /\ ({p.rnd : p \in picks} = 0..(S - 1) =>
               \A i \in 1..Len(shares) :
                  Cardinality({p \in picks : p.b = i}) = shares[i])

C16_Witness ==
    /\ Len(spec.Shares) = 3
    /\ spec.Shares[1] # spec.Shares[2]
    /\ {p.rnd : p \in picks} = 0..(SumShares(spec.Shares) - 1)
    /\ \A i \in 1..3 : \E p \in picks : p.b = i
    /\ lastPick.b = 3

\* C17: the reported total is the configured total. The Total of the
\* returned ResponseStats is spec.Total whatever happened, also when the run
\* was cancelled before that many requests ran, while the latency summary
\* holds one observation per request that was actually executed.
C17_ReportedTotal ==
    Returned =>
       /\ stats.Total = spec.Total
       /\ stats.Latencies = executed
       /\ executed <= (IF spec.Total = 0 THEN MaxSent ELSE spec.Total)

C17_Witness ==
    /\ Returned
    /\ ctxDone
    /\ stats.Total = spec.Total
    /\ stats.Total > 0
    /\ stats.Latencies < stats.Total
    /\ nPost + nDel = stats.Latencies

\* workers whose request ended and whose observation is still to be made
LatencyPending == {w \in Workers : wpc[w] \in {"observe", "obsfail", "obslat"}}
FailurePending == {w \in Workers : wpc[w] \in {"observe", "obsfail"} /\ cur[w].err}

\* C18: per-request observation. Every executed request gets exactly one
\* latency observation, whether it succeeded or failed, and exactly one
\* failure is counted if and only if it ended with an error: at every
\* moment the observations made plus those still pending equal the
\* requests executed (resp. failed), each observation step adds exactly
\* one, and in what Gather returns the failures do not exceed the latency
\* observations.
C18_OneObservationPerRequest ==
    /\ [](/\ respMetric.lat + Cardinality(LatencyPending) = executed
          /\ respMetric.fail + Cardinality(FailurePending) = failed
          /\ (Returned => /\ stats.Gathered.latencies = executed
                          /\ stats.Gathered.failure = failed
                          /\ stats.Gathered.failure <= stats.Gathered.latencies))
    /\ [][\A w \in Workers :
             (wpc[w] \in {"observe", "obslat"} /\ wpc'[w] = "recv") =>
                /\ respMetric'.lat = respMetric.lat + 1
                /\ respMetric'.fail = respMetric.fail]_vars

C18_Witness ==
    /\ Returned
    /\ executed >= 2
    /\ failed >= 1
    /\ failed < executed
    /\ stats.Gathered.latencies = executed
    /\ stats.Gathered.failure = failed

\* C19: no observation is lost at shutdown. Schedule gathers only after Run
\* has exited and every worker has exited, the returned ResponseStats holds
\* every latency observation and every failure observation the workers
\* made, and the sink does not change after Gather.
C19_NoObservationLost ==
    Returned =>
       /\ rpc = "exited"
       /\ AllExited
       /\ stats.Latencies = executed
       /\ Len(stats.FailureList) = failed
       /\ Gather(respMetric) = stats.Gathered

\* C20: the failure list is complete under concurrency. Whatever the
\* interleaving of the workers' ObserveFailure calls, the list Gather
\* returns holds every observed error once, so its length is the failure
\* count the same Gather returns.
C20_FailureListComplete ==
    Returned => Len(stats.Gathered.failureList) = stats.Gathered.failure

C21_CancelAbortsInFlight ==
    [][\A w \in Workers :
          (ExecEnds(w) /\ callerDone) => cur'[w].err]_vars

\* C22: a Gather failure surfaces. When the metric sink's Gather returned
\* an error at the end of the run, what Schedule returns carries an error,
\* not a nil error.
C22_GatherErrorSurfaces ==
    Returned /\ stats.GatherErr => stats.Err # "nil"

\* the builder types whose path C23 describes
PathKinds == {"staleList", "quorumList", "watchList", "staleGet", "quorumGet",
              "patch", "postDel"}

\* C23: path construction. The path a list, get, watchList, patch or
\* postDel builder produces is ["api", version] for the empty group and
\* ["apis", group, version] otherwise, then ["namespaces", ns] if and only
\* if the namespace is non-empty, then the resource, and then the name of
\* the object for a request addressed to one object and nothing else for
\* the others.
C23_PathConstruction ==
    (built.called /\ spec.Entry.kind \in PathKinds) =>
       LET e == spec.Entry
           c == built.comps
           head == IF e.group = ""
                   THEN <<Str("api"), Str(e.version)>>
                   ELSE <<Str("apis"), Str(e.group), Str(e.version)>>
           n == Len(head)
           m == IF e.namespace = "" THEN n ELSE n + 2
           OneObject == built.method \in {"GET", "PATCH", "DELETE"}
       IN  /\ Len(c) = m + (IF OneObject THEN 2 ELSE 1)
           /\ SubSeq(c, 1, n) = head
           /\ (e.namespace # "" =>
                  c[n + 1] = Str("namespaces") /\ c[n + 2] = Str(e.namespace))
           /\ (e.namespace = "" => c[n + 1] = Str(e.resource))
           /\ c[m + 1] = Str(e.resource)
           /\ (OneObject =>
                  c[m + 2] = CASE built.method = "GET" -> Str(e.name)
                               [] built.method = "PATCH" -> PatchName(e.name, built.suffix)
                               [] built.method = "DELETE" -> NameComp(built.name))

C23_Witness ==
    /\ built.called
    /\ spec.Entry.kind = "postDel"
    /\ spec.Entry.group # ""
    /\ spec.Entry.namespace # ""
    /\ built.method = "DELETE"
    /\ Len(built.comps) = 7

\* C24: resource-version semantics. A request built from a StaleList or
\* StaleGet entry carries resourceVersion "0", one built from a QuorumList
\* or QuorumGet entry carries the empty resourceVersion, whatever the
\* group, the namespace and the other fields of the entry.
C24_ResourceVersion ==
    built.called =>
       /\ (spec.Entry.kind \in {"staleList", "staleGet"} => built.resourceVersion = "0")
       /\ (spec.Entry.kind \in {"quorumList", "quorumGet"} => built.resourceVersion = "")

C24_Witness ==
    /\ built.called
    /\ spec.Entry.kind = "staleGet"
    /\ spec.Entry.namespace = ""
    /\ built.method = "GET"
    /\ built.resourceVersion = "0"

\* C26: the postDel decision. With coin u (in permille) a Build produces a
\* DELETE if and only if u < deleteRatio and the cache is not empty; the
\* DELETE is for the name at the head of the cache, which it removes. In
\* every other case, an empty cache with u < deleteRatio included, it
\* produces a POST with a name made from the next counter value, a name
\* the cache does not hold, and leaves the cache as it was. With
\* deleteRatio 0 no Build produces a DELETE.
C26_PostDelDecision ==
    (built.called /\ spec.Entry.kind = "postDel") =>
       LET del == built.coin < spec.DeleteRatio /\ built.cacheBefore # << >>
       IN  /\ built.operation = "DELETE" <=> del
           /\ built.operation \in {"DELETE", "POST"}
           /\ (del =>
                  /\ built.name = Head(built.cacheBefore)
                  /\ built.cacheAfter = Tail(built.cacheBefore)
                  /\ built.method = "DELETE")
           /\ (~del =>
                  /\ built.method = "POST"
                  /\ built.name = PostName(built.timestamp, built.counterBefore + 1)
                  /\ built.name \notin Range(built.cacheBefore)
                  /\ built.cacheAfter = built.cacheBefore)
           /\ (spec.DeleteRatio = 0 => built.operation = "POST")

C26_Witness ==
    /\ built.called
    /\ spec.Entry.kind = "postDel"
    /\ spec.DeleteRatio = 500
    /\ built.coin = 499
    /\ built.operation = "DELETE"
    /\ Len(built.cacheBefore) = 2
    /\ built.cacheAfter = Tail(built.cacheBefore)

\* C25: token before build. A worker calls Build only after its limiter
\* wait succeeded, so a request whose limiter wait failed has had no Build
\* side effect: no name was popped from the cache for it and no counter
\* value was taken for it.
C25_TokenBeforeBuild ==
    [][\A w \in Workers :
          (wpc[w] \in {"wait", "timer"} /\ wpc'[w] = "exit") =>
             cur[w].op \notin {"POST", "DELETE"}]_vars

\* C27: unique POST names. The counter of a postDel builder starts at 1 and
\* each POST build takes its value in one atomic increment: under every
\* interleaving of the workers' Build calls the n POST builds made so far
\* took exactly the counter values 1..n, one each, so their names are
\* pairwise distinct although they carry the same timestamp.
C27_UniquePostNames ==
    /\ Len(postNames) = resourceCounter
    /\ \A i \in DOMAIN postNames : postNames[i][2] = i
    /\ \A i, j \in DOMAIN postNames : i # j => postNames[i] # postNames[j]
    /\ \A w \in Workers : cur[w].op = "POST" => cur[w].name \in Range(postNames)
    /\ \A v, w \in Workers :
          (v # w /\ cur[v].op = "POST" /\ cur[w].op = "POST") => cur[v].name # cur[w].name

C27_Witness ==
    /\ Len(postNames) >= 2
    /\ postNames[1][1] = postNames[2][1]
    /\ \E v, w \in Workers :
          /\ v # w
          /\ wpc[v] = "wait" /\ cur[v].op = "POST"
          /\ wpc[w] = "wait" /\ cur[w].op = "POST"

\* C28: bounded production. With total T > 0 Run never sends more than T
\* builders; it leaves its loop without a cancelled context only when it
\* has sent exactly T; and when the workers keep receiving, Run either
\* sends T builders and returns or a context is cancelled while it runs.
C28_BoundedProduction ==
    /\ [](spec.Total > 0 => sum <= spec.Total)
    /\ [][(rpc = "loop" /\ rpc' = "exited" /\ ~ctxDone /\ ~rCancelled) =>
             (spec.Total > 0 /\ sum = spec.Total)]_vars
    /\ (spec.Total > 0 =>
           <>(\/ rpc = "exited" /\ sum = spec.Total
              \/ ctxDone /\ rpc # "exited"))

C28_Witness ==
    /\ spec.Total = MaxTotal
    /\ rpc = "exited"
    /\ sum = spec.Total
    /\ ~ctxDone
    /\ ~rCancelled
    /\ stopPc[SchedTask] = "idle"

\* C29: unbounded production. With total = 0 Run never returns on its own:
\* it leaves its loop only when the generator's context or the caller's
\* context is done, and as long as the workers keep receiving and no
\* context is cancelled it goes on sending (up to the number of sends the
\* model follows).
C29_UnboundedProduction ==
    /\ [](spec.Total = 0 /\ rpc = "exited" => ctxDone \/ rCancelled)
    /\ [][(spec.Total = 0 /\ rpc = "loop" /\ rpc' = "exited") =>
             (ctxDone \/ rCancelled)]_vars
    /\ (spec.Total = 0 => <>(sum = MaxSent \/ ctxDone \/ rCancelled))

C29_Witness ==
    /\ spec.Total = 0
    /\ sum = MaxSent
    /\ rpc = "loop"
    /\ ~ctxDone
    /\ ~rCancelled
    /\ executed = MaxSent

\* C30: a finite run terminates. With total T > 0, T smaller than the
\* number of workers included, when every request in flight ends and the
\* workers keep receiving, Schedule eventually returns; by then Run has
\* exited and every worker has exited, those that never received a builder
\* too, and a worker waiting on the channel leaves only once the channel is
\* closed. A run that nothing cancelled has executed its T requests.
C30_FiniteRunTerminates ==
    /\ (spec.Total > 0 => <>(Returned /\ rpc = "exited" /\ AllExited))
    /\ [](Returned /\ spec.Total > 0 /\ ~callerDone /\ ~limErr =>
             executed = spec.Total /\ stats.Total = spec.Total)
    /\ [][\A w \in Workers :
             (wpc[w] = "recv" /\ wpc'[w] = "exit") => chClosed]_vars

C30_Witness ==
    /\ Returned
    /\ spec.Total >= 1
    /\ spec.Total < NumWorkers
    /\ ~callerDone
    /\ ~limErr
    /\ executed = spec.Total
    /\ AllExited

\* C31: worker-to-client binding. Schedule starts all spec.Client workers
\* at once; worker k (k = 0..client-1) builds every request it executes
\* with the client of index k mod len(clients), an index inside the client
\* slice, so with more workers than clients the clients are reused in
\* turn; no index outside the slice is used.
C31_ClientBinding ==
    /\ panicked # "index out of range"
    /\ Cardinality({w \in Workers : wpc[w] # "unstarted"}) \in {0, NumWorkers}
    /\ (rpc # "idle" => \A w \in Workers : wpc[w] # "unstarted")
    /\ \A w \in Workers :
          wpc[w] \in {"post", "wait", "timer", "do", "stream", "observe"} =>
             /\ cur[w].cli \in 0..(spec.Conns - 1)
             /\ \E q \in 0..NumWorkers : (w - 1) = q * spec.Conns + cur[w].cli

C31_Witness ==
    /\ spec.Conns < NumWorkers
    /\ \E v, w \in Workers :
          /\ v < w
          /\ wpc[v] = "stream" /\ wpc[w] = "stream"
          /\ cur[v].cli = cur[w].cli
          /\ cur[w].cli = (w - 1) - spec.Conns

\* the calls of l made one after the other on a FIFO queue that starts as q:
\* whether every result is the one the queue gives, and the queue at the end
RECURSIVE Replay(_, _)
Replay(l, q) ==
    IF l = << >> THEN [legal |-> TRUE, q |-> q]
    ELSE LET e == Head(l)
             r == CASE e.op = "Push" -> [legal |-> TRUE, q |-> Append(q, e.name)]
                    [] e.op = "Pop" ->
                         IF q = << >>
                         THEN [legal |-> ~e.ok /\ e.name = EmptyName, q |-> q]
                         ELSE [legal |-> e.ok /\ e.name = Head(q), q |-> Tail(q)]
                    [] e.op = "Len" -> [legal |-> e.n = Len(q), q |-> q]
         IN  IF r.legal THEN Replay(Tail(l), r.q) ELSE [legal |-> FALSE, q |-> q]

LinPushed == SelectSeq(lin, LAMBDA e : e.op = "Push")
LinPopped == SelectSeq(lin, LAMBDA e : e.op = "Pop" /\ e.ok)

\* C32: the NameCache is linearisable. Under every interleaving of Push,
\* Pop and Len calls of several workers, the calls take effect one at a
\* time, each between its invocation and its return and with the mutex
\* held by its caller alone; made in that order on a FIFO queue, the same
\* calls give the same results and leave the queue the cache holds; each
\* pushed name is returned by at most one Pop, and every pushed name is
\* either returned by a Pop or still in the cache.
C32_Linearisable ==
    /\ [](/\ panicked = "none"
          /\ Replay(lin, << >>) = [legal |-> TRUE, q |-> cache]
          /\ \A j, k \in DOMAIN LinPopped :
                j # k => LinPopped[j].name # LinPopped[k].name
          /\ {LinPushed[k].name : k \in DOMAIN LinPushed} =
                {LinPopped[k].name : k \in DOMAIN LinPopped} \cup Range(cache)
          /\ Len(LinPushed) = Len(LinPopped) + Len(cache)
          /\ \A v, w \in Workers : (InCritical(v) /\ InCritical(w)) => (v = w /\ mu = w)
          /\ \A w \in Workers : cop[w].pc = "unlock" <=> cop[w].id \in LinIds)
    /\ [][lin' # lin =>
             \E w \in Workers :
                /\ lin' = Append(lin, Effect(w, cop'[w]))
                /\ cop[w].id = cop'[w].id
                /\ cop[w].pc \in {"body", "remove"}
                /\ cop'[w].pc = "unlock"
                /\ cop[w].id \notin LinIds
                /\ mu = w]_vars
    /\ [][\A w \in Workers :
             (cop[w].pc = "unlock" /\ cop'[w].pc = "idle") =>
                \E k \in DOMAIN lin :
                   lin[k] = Effect(w, cop[w])]_vars

C32_Witness ==
    /\ Len(lin) = MaxCalls
    /\ \E j, k \in DOMAIN lin :
          /\ j < k
          /\ lin[j].op = "Push" /\ lin[k].op = "Pop" /\ lin[k].ok
          /\ lin[k].name = lin[j].name
          /\ lin[j].w # lin[k].w
          /\ lin[j].id > lin[k].id
    /\ \E k \in DOMAIN lin : lin[k].op = "Pop" /\ ~lin[k].ok
    /\ \E k \in DOMAIN lin : lin[k].op = "Len" /\ lin[k].n = 1

\* C33: patch key space. For keySpaceSize K >= 1 every Build of a patch
\* builder addresses the name Sprintf("%s-%d", name, s) with an integer s,
\* 0 <= s < K: no name outside name-0 .. name-(K-1) is produced.
C33_PatchKeySpace ==
    (built.called /\ spec.Entry.kind = "patch") =>
       LET target == built.comps[Len(built.comps)]
       IN  /\ built.method = "PATCH"
           /\ target.fmt = "%s-%d"
           /\ target.s = spec.Entry.name
           /\ target.a >= 0
           /\ target.a < spec.Entry.keySpaceSize
           /\ target.a \in Int

C33_Witness ==
    /\ built.called
    /\ spec.Entry.kind = "patch"
    /\ spec.Entry.keySpaceSize = MaxKeySpace
    /\ built.comps[Len(built.comps)] = PatchName(spec.Entry.name, MaxKeySpace - 1)

\* C34: no send on a closed channel. Whatever the interleaving of Run and
\* of the Stop calls of other tasks, Stop called before Run registered
\* with the wait group included, Run never executes its send on the channel
\* after Stop closed it.
C34_NoSendOnClosed ==
    panicked # "send on closed channel"

\* workers that hold a request: built, and its latency not yet observed
Holding == {w \in Workers : wpc[w] \in {"wait", "timer", "do", "stream", "observe",
                                       "obsfail", "obslat"}}
\* workers inside an iteration of the range loop
Busy == {w \in Workers : wpc[w] \in {"build", "post"}} \cup Holding

\* C35: bounded concurrency. The builders the generator has sent are as
\* many as the builders the workers have received (the channel holds
\* none); the requests in flight, built and not yet observed, are never
\* more than spec.Client, each of them a builder that was sent and whose
\* latency is not yet observed; and the builders sent and not yet
\* observed are never more than spec.Client either.
C35_BoundedConcurrency ==
    /\ sum = nRecv
    /\ Cardinality(Holding) <= NumWorkers
    /\ Cardinality(Busy) <= sum - respMetric.lat
    /\ sum - respMetric.lat <= NumWorkers
    /\ (~limErr => Cardinality(Busy) = sum - respMetric.lat)

C35_Witness ==
    /\ Cardinality(Holding) = NumWorkers
    /\ \A w \in Workers : wpc[w] = "stream"
    /\ sum - respMetric.lat = NumWorkers
    /\ respMetric.lat >= 1
    /\ rpc = "loop"

\* C36: exactly-once hand-off. Every send of the generator is the receive
\* of exactly one worker, which gets the builder that was sent; no other
\* worker moves with it, no worker gets a builder without a send, and the
\* count of builders sent grows by one with each hand-off, so that no
\* builder is received twice and none is lost.
C36_ExactlyOnceHandOff ==
    /\ [][sum' # sum =>
             /\ sum' = sum + 1
             /\ nRecv' = nRecv + 1
             /\ \E w \in Workers :
                   /\ wpc[w] = "recv" /\ wpc'[w] = "build"
                   /\ cur'[w].op = "builder"
                   /\ cur'[w].b \in DOMAIN spec.Shares
                   /\ \A v \in Workers \ {w} : wpc'[v] = wpc[v] /\ cur'[v] = cur[v]]_vars
    /\ [][(\E w \in Workers : wpc[w] = "recv" /\ wpc'[w] = "build") =>
             sum' = sum + 1]_vars
    /\ [][nRecv' # nRecv => sum' # sum]_vars
    /\ [](\A w \in Workers : wpc[w] = "build" => cur[w].op = "builder")

C36_Witness ==
    /\ sum = MaxSent
    /\ nRecv = MaxSent
    /\ executed = MaxSent - NumWorkers
    /\ \A w \in Workers : wpc[w] = "build"
    /\ \E v, w \in Workers : cur[v].b # cur[w].b

\* workers whose DELETE request is built and has not ended
DeleteInFlight == {w \in Workers : cur[w].op = "DELETE" /\
                                   wpc[w] \in {"wait", "timer", "do", "stream"}}
\* workers whose POST request is being built or is built and has not ended
PostInFlight == {w \in Workers : cur[w].op = "POST" /\
                                 wpc[w] \in {"wait", "timer", "do", "stream"}}

\* C37: no duplicate delete targets. In every state of a postDel builder
\* used by concurrent workers no name occurs twice in its cache, the name
\* of a DELETE in flight is not in the cache, and no two DELETEs in flight
\* have the same name.
C37_NoDuplicateDeleteTargets ==
    /\ \A j, k \in DOMAIN cache : j # k => cache[j] # cache[k]
    /\ \A w \in DeleteInFlight : cur[w].name \notin Range(cache)
    /\ \A v, w \in DeleteInFlight : v # w => cur[v].name # cur[w].name

C37_Witness ==
    /\ Cardinality(DeleteInFlight) >= 2
    /\ \A w \in DeleteInFlight : wpc[w] = "stream"
    /\ nPost >= 2
    /\ Cardinality(live) >= 2

\* C38: a DELETE follows a successful POST. Every DELETE a postDel builder
\* produces is for a name that a POST of the same builder created with
\* success and that no DELETE has removed with success; the POST of that
\* name is not in flight, and the names the cache holds, from which the
\* DELETEs are taken, are all names of successful POSTs.
C38_DeleteFollowsPost ==
    /\ [](/\ \A w \in DeleteInFlight :
                /\ cur[w].name \in live
                /\ cur[w].name \in Range(postNames)
                /\ \A v \in Workers :
                      (cur[v].op = "POST" /\ cur[v].name = cur[w].name) =>
                          wpc[v] \in {"observe", "obsfail", "obslat"} /\ ~cur[v].err
          /\ Range(cache) \subseteq live
          /\ \A v \in PostInFlight : cur[v].name \notin live)
    /\ [][\A w \in Workers :
             (wpc[w] = "build" /\ wpc'[w] = "wait" /\ cur'[w].op = "DELETE") =>
                /\ cur'[w].name \in live
                /\ cur'[w].name = Head(cache)]_vars
    /\ [][\A w \in Workers :
             (ExecEnds(w) /\ cur[w].op = "POST" /\ cur'[w].err) =>
                cur[w].name \notin Range(cache') \cup live']_vars

C38_Witness ==
    /\ failed >= 1
    /\ nPost >= 2
    /\ nPost - Cardinality(live) >= 1
    /\ nDel = 0
    /\ \E w \in DeleteInFlight : wpc[w] = "stream"
    /\ \E v \in PostInFlight : wpc[v] = "stream"

\* C39: the two NameCache implementations are observationally equivalent.
\* For every sequence of Push, Pop and Len calls made on both, each Pop
\* returns the same (name, ok) on the list cache and on the slice cache,
\* each Len returns the same number, and the two hold the same names in
\* the same order.
C39_CachesEquivalent ==
    /\ [](/\ lastPop = slPop
          /\ lastLen = slLen
          /\ SliceItems(slice) = cache
          /\ SliceLen(slice) = CacheLen(cache))
    /\ [][BothPop => (lastPop' = slPop' /\ (slPop'.ok <=> cache # << >>))]_vars
    /\ [][BothLen => (lastLen' = slLen' /\ slLen' = Len(hPushed) - Len(hPopped))]_vars

C39_Witness ==
    /\ Len(hPushed) = MaxOps
    /\ Len(hPopped) = 2
    /\ slPop.ok
    /\ slPop.name = hPushed[2]
    /\ hPushed[1] # hPushed[2]
    /\ slice.lo = 2
    /\ slLen = 3
    /\ SliceLen(slice) = 2

RECURSIVE SumCounts(_)
SumCounts(pools) ==
    IF pools = << >> THEN 0 ELSE Head(pools).count + SumCounts(Tail(pools))

\* C40: nodepool batch-add. For nodes N > 0 and batch-size B > 0 the
\* command creates the nodepools prefix-0, prefix-1, ... one after the
\* other, each with at least 1 and at most B nodes; when every creation
\* succeeded it returns nil with ceil(N/B) nodepools whose node counts sum
\* to N; it returns at the first creation that fails and creates nothing
\* after it; with B <= 0 it returns an error and creates no nodepool.
C40_BatchAdd ==
    /\ [](LET N == cmd.totalNodes
              B == cmd.batchSize
              n == Len(nodepools)
          IN
          /\ \A k \in DOMAIN nodepools :
                /\ nodepools[k].name = [fmt |-> "%s-%d", s |-> "np",
                                        a |-> k - 1, b |-> 0]
                /\ nodepools[k].count >= 1
                /\ nodepools[k].count <= B
          /\ SumCounts(nodepools) <= N
          /\ (cmd.pc = "returned" /\ cmd.err = "nil" /\ N > 0 /\ B > 0) =>
                /\ (n - 1) * B < N
                /\ N <= n * B
                /\ SumCounts(nodepools) = N
          /\ (cmd.pc = "returned" /\ cmd.err = "failed to create nodepool batch") =>
                /\ n * B < N
                /\ SumCounts(nodepools) = n * B
          /\ (cmd.pc # "idle" /\ B <= 0) =>
                /\ nodepools = << >>
                /\ cmd.pc = "returned"
                /\ cmd.err # "nil")
    /\ [][nodepools' # nodepools =>
             /\ cmd.pc = "loop" /\ cmd'.pc = "loop"
             /\ Len(nodepools') = Len(nodepools) + 1
             /\ SubSeq(nodepools', 1, Len(nodepools)) = nodepools]_vars
    /\ [][cmd.pc = "returned" => UNCHANGED <<cmd, nodepools>>]_vars

C40_Witness ==
    /\ cmd.pc = "returned"
    /\ cmd.err = "nil"
    /\ cmd.totalNodes = 5
    /\ cmd.batchSize = 2
    /\ Len(nodepools) = 3
    /\ nodepools[Len(nodepools)].count = 1
    /\ nodepools[1].count = 2

=============================================================================
